---- MODULE Spec2Model ----
(***************************************************************************)
(* Verification model of the IMC Prosperity trading engines of this        *)
(* repository: src/round_1.py, src/tutorial/round_1.py,                    *)
(* src/tutorial/round_2.py, src/tutorial/test.py and src/round_3.py.       *)
(*                                                                         *)
(* Every Trader.run is one action: it decodes the prior memory, walks the  *)
(* order-book snapshot, and returns the orders and the new memory.         *)
(*                                                                         *)
(* Python floats are IEEE-754 binary64.  They are modelled exactly: a      *)
(* float is sgn * man * 2^exp with man an arbitrary-precision natural      *)
(* (little-endian limbs of LimbBits bits), and every arithmetic operation  *)
(* rounds its exact result to 53 significant bits, ties to even.           *)
(***************************************************************************)
EXTENDS Integers, Naturals, Sequences, FiniteSets, TLC

(***************************************************************************)
(* Arbitrary-precision naturals: <<>> is 0, limb i weighs Base^(i-1).      *)
(***************************************************************************)
Pow2(n) == 2^n

\* a limb holds 15 bits, so that a product of two limbs fits a machine integer
Base == 2^15
LimbBits == 3 * 5
\* binary64: 52 stored fraction bits and the implicit leading bit
Mantissa == 52 + 1

Min(a, b) == IF a < b THEN a ELSE b
Max(a, b) == IF a > b THEN a ELSE b
Abs(a) == IF a < 0 THEN -a ELSE a

RECURSIVE BNorm(_)
BNorm(a) ==
    IF a = <<>> THEN <<>>
    ELSE IF a[Len(a)] = 0 THEN BNorm(SubSeq(a, 1, Len(a) - 1)) ELSE a

RECURSIVE BFromNat(_)
BFromNat(n) == IF n = 0 THEN <<>> ELSE <<n % Base>> \o BFromNat(n \div Base)

RECURSIVE BToNat(_)
BToNat(a) == IF a = <<>> THEN 0 ELSE a[1] + Base * BToNat(Tail(a))

Limb(a, i) == IF i <= Len(a) THEN a[i] ELSE 0

RECURSIVE BAddC(_, _, _, _)
BAddC(a, b, i, c) ==
    IF i > Len(a) /\ i > Len(b)
    THEN (IF c = 0 THEN <<>> ELSE <<c>>)
    ELSE LET s == Limb(a, i) + Limb(b, i) + c
         IN  <<s % Base>> \o BAddC(a, b, i + 1, s \div Base)

BAdd(a, b) == BAddC(a, b, 1, 0)

\* a - b for a >= b
RECURSIVE BSubC(_, _, _, _)
BSubC(a, b, i, c) ==
    IF i > Len(a) THEN <<>>
    ELSE LET s == Limb(a, i) - Limb(b, i) - c
         IN  IF s < 0 THEN <<s + Base>> \o BSubC(a, b, i + 1, 1)
                      ELSE <<s>> \o BSubC(a, b, i + 1, 0)

BSub(a, b) == BNorm(BSubC(a, b, 1, 0))

\* -1, 0, 1 as a < b, a = b, a > b (both normalised)
RECURSIVE BCmpFrom(_, _, _)
BCmpFrom(a, b, i) ==
    IF i = 0 THEN 0
    ELSE IF a[i] < b[i] THEN -1
    ELSE IF a[i] > b[i] THEN 1
    ELSE BCmpFrom(a, b, i - 1)

BCmp(a, b) ==
    IF Len(a) < Len(b) THEN -1
    ELSE IF Len(a) > Len(b) THEN 1
    ELSE BCmpFrom(a, b, Len(a))

\* a * d for one limb d
RECURSIVE BMulLimbC(_, _, _, _)
BMulLimbC(a, d, i, c) ==
    IF i > Len(a) THEN (IF c = 0 THEN <<>> ELSE <<c>>)
    ELSE LET s == a[i] * d + c
         IN  <<s % Base>> \o BMulLimbC(a, d, i + 1, s \div Base)

BShiftLimbs(a, k) == IF a = <<>> THEN <<>> ELSE [i \in 1..k |-> 0] \o a

RECURSIVE BMulFrom(_, _, _)
BMulFrom(a, b, j) ==
    IF j > Len(b) THEN <<>>
    ELSE BAdd(BShiftLimbs(BMulLimbC(a, b[j], 1, 0), j - 1), BMulFrom(a, b, j + 1))

BMul(a, b) == IF a = <<>> \/ b = <<>> THEN <<>> ELSE BNorm(BMulFrom(a, b, 1))

\* a * 2^s
BShl(a, s) ==
    BNorm(BShiftLimbs(BMulLimbC(a, Pow2(s % LimbBits), 1, 0), s \div LimbBits))

\* floor(a / 2^s)
BShr(a, s) ==
    LET q == s \div LimbBits
        r == s % LimbBits
        n == Len(a) - q
    IN  IF n <= 0 THEN <<>>
        ELSE BNorm([i \in 1..n |->
                 (a[i + q] \div Pow2(r))
                 + (Limb(a, i + q + 1) % Pow2(r)) * Pow2(LimbBits - r)])

RECURSIVE BitLenNat(_)
BitLenNat(n) == IF n = 0 THEN 0 ELSE 1 + BitLenNat(n \div 2)

BBitLen(a) == IF a = <<>> THEN 0 ELSE LimbBits * (Len(a) - 1) + BitLenNat(a[Len(a)])

\* bit i of a (bit 0 is the least significant)
BBit(a, i) == (Limb(a, (i \div LimbBits) + 1) \div Pow2(i % LimbBits)) % 2

\* a mod 2^s = 0
BZeroBelow(a, s) ==
    /\ \A i \in 1..Min(Len(a), s \div LimbBits) : a[i] = 0
    /\ Limb(a, (s \div LimbBits) + 1) % Pow2(s % LimbBits) = 0

\* the number of trailing zero bits of n > 0 (a machine integer)
RECURSIVE TrailingZerosNat(_)
TrailingZerosNat(n) == IF n % 2 = 1 THEN 0 ELSE 1 + TrailingZerosNat(n \div 2)

\* the number of trailing zero bits of a # <<>>, from limb i on
RECURSIVE BTrailingZeros(_, _)
BTrailingZeros(a, i) ==
    IF a[i] = 0 THEN LimbBits + BTrailingZeros(a, i + 1)
    ELSE TrailingZerosNat(a[i])

\* the quotient limb digit put under the quotient of the lower limbs
BDivStep(rest, digit) == <<Append(rest[1], digit), rest[2]>>

\* <<quotient, remainder>> of a by a one-limb divisor d, from limb i down
RECURSIVE BDivLimbFrom(_, _, _, _)
BDivLimbFrom(a, d, i, r) ==
    IF i = 0 THEN <<<<>>, r>>
    ELSE BDivStep(BDivLimbFrom(a, d, i - 1, (r * Base + a[i]) % d),
                  (r * Base + a[i]) \div d)

BNormQuotient(qr) == <<BNorm(qr[1]), qr[2]>>

BDivLimb(a, d) == BNormQuotient(BDivLimbFrom(a, d, Len(a), 0))

(***************************************************************************)
(* binary64 floats.  A float is [sgn, man, exp] with value                 *)
(* sgn * man * 2^exp, kept canonical (man odd, or zero with exp 0) so that *)
(* equal values are equal records.  The values met here are far from the   *)
(* subnormal and overflow ranges.                                          *)
(***************************************************************************)
FZero == [sgn |-> 1, man |-> <<>>, exp |-> 0]

\* s * n * 2^e for n # 0 with tz trailing zero bits
FStrip(s, n, e, tz) == [sgn |-> s, man |-> BShr(n, tz), exp |-> e + tz]

FCanon(s, n, e) == IF n = <<>> THEN FZero ELSE FStrip(s, n, e, BTrailingZeros(n, 1))

\* the float nearest to s * n * 2^e, ties to even
\* q = floor(n / 2^sh) rounded by the sh bits dropped from n: up when the
\* first of them is set and either a later one is or q is odd
FRoundUp(n, sh, q) ==
    IF BBit(n, sh - 1) = 1 /\ (~BZeroBelow(n, sh - 1) \/ q[1] % 2 = 1)
    THEN BAdd(q, <<1>>)
    ELSE q

FRoundBy(s, n, e, sh) ==
    IF sh <= 0 THEN FCanon(s, n, e)
    ELSE FCanon(s, FRoundUp(n, sh, BShr(n, sh)), e + sh)

FRound(s, n, e) == FRoundBy(s, n, e, BBitLen(n) - Mantissa)

FromInt(n) == FCanon(IF n < 0 THEN -1 ELSE 1, BFromNat(Abs(n)), 0)

\* n / 2 for an integer n: (bid + ask) / 2 is exact
FromHalves(n) == FCanon(IF n < 0 THEN -1 ELSE 1, BFromNat(Abs(n)), -1)

FNeg(x) == IF x.man = <<>> THEN x ELSE [x EXCEPT !.sgn = -x.sgn]

FMul(x, y) == FRound(x.sgn * y.sgn, BMul(x.man, y.man), x.exp + y.exp)

\* the exact sum as <<sgn, man, exp>>
\* xs * xm + ys * ym as <<sgn, man>>, given c = BCmp(xm, ym)
FSignedSum(xs, xm, ys, ym, c) ==
    IF xs = ys THEN <<xs, BAdd(xm, ym)>>
    ELSE IF c = 0 THEN <<1, <<>>>>
    ELSE IF c > 0 THEN <<xs, BSub(xm, ym)>>
    ELSE <<ys, BSub(ym, xm)>>

FAligned(xs, xm, ys, ym) == FSignedSum(xs, xm, ys, ym, BCmp(xm, ym))

\* the exact sum in units of 2^e, e = Min(x.exp, y.exp), as <<sgn, man>>
FExactSum(x, y, e) ==
    FAligned(x.sgn, BShl(x.man, x.exp - e), y.sgn, BShl(y.man, y.exp - e))

FRoundSum(sm, e) == FRound(sm[1], sm[2], e)

FAdd(x, y) == FRoundSum(FExactSum(x, y, Min(x.exp, y.exp)), Min(x.exp, y.exp))
FSub(x, y) == FAdd(x, FNeg(y))

FSignOf(sm) == IF sm[2] = <<>> THEN 0 ELSE sm[1]

\* -1, 0, 1 as x < y, x = y, x > y
FCmp(x, y) == FSignOf(FExactSum(x, FNeg(y), Min(x.exp, y.exp)))

FLt(x, y) == FCmp(x, y) < 0
FGt(x, y) == FCmp(x, y) > 0

\* s * n * 2^e / b for an integer b > 0 below one limb, and Python's a / b
\* for integers a and b: the float nearest to the exact quotient.  The dividend is scaled so that the integer
\* quotient has more than Mantissa + 2 bits; a non-zero remainder is kept as
\* a sticky bit.
FDivScale == 5 * LimbBits

\* twice the quotient, plus one when the remainder is not zero
FSticky(qr) == BAdd(BShl(qr[1], 1), IF qr[2] = 0 THEN <<>> ELSE <<1>>)

FDivExact(s, n, e, b) ==
    FRound(s, FSticky(BDivLimb(BShl(n, FDivScale), b)), e - FDivScale - 1)

FDivInts(a, b) == FDivExact(IF a < 0 THEN -1 ELSE 1, BFromNat(Abs(a)), 0, b)

\* Python's int(x): truncation toward zero
FInt(x) ==
    IF x.exp >= 0 THEN x.sgn * BToNat(BShl(x.man, x.exp))
    ELSE x.sgn * BToNat(BShr(x.man, -x.exp))

(***************************************************************************)
(* The platform's data model (datamodel.py is not part of the repository;  *)
(* the traders use it as follows).  An OrderDepth holds two dicts,         *)
(* price -> volume; volumes of sell_orders are negative.  A dict is a      *)
(* function; the dict of order depths, whose iteration order matters, is   *)
(* a sequence of <<product, depth>> pairs with distinct products.          *)
(***************************************************************************)
\* Python's None where a price is expected (prices are positive)
None == 0 - 1
\* no exception raised
NoExc == "none"

Get(d, k, default) == IF k \in DOMAIN d THEN d[k] ELSE default
SetDefault(d, k, v) == IF k \in DOMAIN d THEN d ELSE (k :> v) @@ d
Put(d, k, v) == (k :> v) @@ d
EmptyDict == <<>>

SetMax(S) == CHOOSE x \in S : \A y \in S : y <= x
SetMin(S) == CHOOSE x \in S : \A y \in S : x <= y

Keys(depths) == {depths[i][1] : i \in 1..Len(depths)}
DepthOf(depths, prod) ==
    depths[CHOOSE i \in 1..Len(depths) : depths[i][1] = prod][2]

\* ghost field leg: the statement of the source that emitted the order
Order(symbol, price, quantity, leg) ==
    [symbol |-> symbol, price |-> price, quantity |-> quantity, leg |-> leg]

\* Trader._best: <<<<bid_px, bid_qty>>, <<ask_px, ask_qty>>>>
Best(depth) ==
    LET bid == IF DOMAIN depth.buy_orders # {}
               THEN LET p == SetMax(DOMAIN depth.buy_orders)
                    IN  <<p, depth.buy_orders[p]>>
               ELSE <<None, 0>>
        ask == IF DOMAIN depth.sell_orders # {}
               THEN LET p == SetMin(DOMAIN depth.sell_orders)
                    IN  <<p, depth.sell_orders[p]>>
               ELSE <<None, 0>>
    IN  <<bid, ask>>

\* collections.deque(maxlen = n) and deque.append: a full deque drops its
\* oldest item
Deque(maxlen) == [maxlen |-> maxlen, items |-> <<>>]

\* mutant: a full deque drops its newest item
DequeAppendDropNewest(d, x) ==
    IF Len(d.items) >= d.maxlen
    THEN [d EXCEPT !.items = Append(SubSeq(d.items, 1, Len(d.items) - 1), x)]
    ELSE [d EXCEPT !.items = Append(d.items, x)]

\* deque.append(x) on a deque(maxlen=...): a full deque drops its oldest item
DequeAppend(d, x) ==
    IF Len(d.items) >= d.maxlen
    THEN [d EXCEPT !.items = Append(Tail(d.items), x)]
    ELSE [d EXCEPT !.items = Append(d.items, x)]

\* twice the value of a float that is a multiple of 1/2 (so exp >= -1), as
\* are all mid-prices
Halves(x) == x.sgn * Pow2(x.exp + 1) * BToNat(x.man)

\* the sum of Halves over xs[lo..hi], halving the range to keep the
\* evaluation shallow
RECURSIVE SumHalvesIn(_, _, _)
SumHalvesIn(xs, lo, hi) ==
    IF lo > hi THEN 0
    ELSE IF lo = hi THEN Halves(xs[lo])
    ELSE LET m == (lo + hi) \div 2
         IN  SumHalvesIn(xs, lo, m) + SumHalvesIn(xs, m + 1, hi)

SumHalves(xs) == SumHalvesIn(xs, 1, Len(xs))

\* statistics.mean over mid-prices (multiples of 1/2): the exact sum divided
\* by the count, rounded once
Mean(xs) == FDivInts(SumHalves(xs), 2 * Len(xs))

\* jsonpickle.encode / jsonpickle.decode of the memory dict: a float is
\* written by repr and read back as the same binary64; a deque is written as
\* its constructor arguments (maxlen) and its items
\* mutant: a deque is written with its length in place of its maxlen
EncodeValueLosingMaxlen(v) ==
    IF "maxlen" \in DOMAIN v
    THEN [py_reduce |-> "collections.deque", args |-> Len(v.items), listitems |-> v.items]
    ELSE IF "sgn" \in DOMAIN v THEN [number |-> v]
    ELSE [list |-> v.list]

EncodeValue(v) ==
    IF "maxlen" \in DOMAIN v
    THEN [py_reduce |-> "collections.deque", args |-> v.maxlen, listitems |-> v.items]
    ELSE IF "sgn" \in DOMAIN v THEN [number |-> v]
    ELSE [list |-> v.list]

DecodeValue(j) ==
    IF "py_reduce" \in DOMAIN j
    THEN [maxlen |-> j.args, items |-> j.listitems]
    ELSE IF "number" \in DOMAIN j THEN j.number
    ELSE [list |-> j.list]

Encode(mem) == [text |-> "json", json |-> [k \in DOMAIN mem |-> EncodeValue(mem[k])]]
Decode(blob) == [k \in DOMAIN blob.json |-> DecodeValue(blob.json[k])]

\* the empty string the platform hands over on the first tick
NoData == [text |-> "", json |-> EmptyDict]

\* mem = jsonpickle.decode(state.traderData) if state.traderData else {}
LoadMem(data) == IF data.text = "" THEN EmptyDict ELSE Decode(data)

(***************************************************************************)
(* State.  One run of a trader is one step.                                *)
(*   traderData  the blob the last run returned ("" before the first run)  *)
(*   state       the TradingState handed to the last run                   *)
(*   results     the orders the last run returned, product -> list         *)
(*   outcome     "init", "returned", or the exception the last run raised  *)
(*   tick        the number of runs so far                                 *)
(*   self        the attributes of the Trader instance                     *)
(*   win, pushed a rolling window and the log of the values pushed into it *)
(***************************************************************************)
VARIABLES traderData, state, results, outcome, tick, self, win, pushed

vars == <<traderData, state, results, outcome, tick, self, win, pushed>>


Depth(buy, sell) == [buy_orders |-> buy, sell_orders |-> sell]
TradingState(depths, position) == [order_depths |-> depths, position |-> position]
NoState == TradingState(<<>>, EmptyDict)

\* the returned list of a product ([] when the run returned no such key)
OrdersOf(prod) == Get(results, prod, <<>>)

RECURSIVE SumQty(_)
SumQty(os) == IF os = <<>> THEN 0 ELSE Head(os).quantity + SumQty(Tail(os))

Repeat(x, n) == [i \in 1..n |-> x]

\* readers of a snapshot: a product with both book sides, its best bid and
\* ask as <<price, volume>>, its mid-price and its position
HasBook(st, prod) ==
    /\ prod \in Keys(st.order_depths)
    /\ Best(DepthOf(st.order_depths, prod))[1][1] # None
    /\ Best(DepthOf(st.order_depths, prod))[2][1] # None

BidOf(st, prod) == Best(DepthOf(st.order_depths, prod))[1]
AskOf(st, prod) == Best(DepthOf(st.order_depths, prod))[2]
MidOf(st, prod) == FromHalves(BidOf(st, prod)[1] + AskOf(st, prod)[1])
PosOf(st, prod) == Get(st.position, prod, 0)

\* a run on st came out as out: it returned its orders and the encoded
\* memory, or raised and returned nothing
Ran(st, out) ==
    /\ state' = st
    /\ IF out.exc = NoExc
       THEN /\ outcome' = "returned"
            /\ results' = out.results
            /\ traderData' = Encode(out.mem)
       ELSE /\ outcome' = out.exc
            /\ results' = EmptyDict
            /\ UNCHANGED traderData


(***************************************************************************)
(* The RAINFOREST_RESIN market maker: src/round_1.py:46-69, the same       *)
(* statements as src/tutorial/round_1.py:65-93 and                         *)
(* src/tutorial/test.py:45-70 (whose parameters differ).                   *)
(***************************************************************************)
\* fv = ALPHA * mid + (1 - ALPHA) * fv_prev
Ema(alpha, mid, fv_prev) ==
    FAdd(FMul(alpha, mid), FMul(FSub(FromInt(1), alpha), fv_prev))

\* skew = INV_SKEW * (pos / lim) * RESIN_EDGE * 2
Skew(P, pos, lim) ==
    FMul(FMul(FMul(P.INV_SKEW, FDivInts(pos, lim)), FromInt(P.RESIN_EDGE)), FromInt(2))

\* bid_target = int(fv - RESIN_EDGE - skew)
BidTarget(P, fv, skew) == FInt(FSub(FSub(fv, FromInt(P.RESIN_EDGE)), skew))

\* ask_target = int(fv + RESIN_EDGE - skew)
AskTarget(P, fv, skew) == FInt(FSub(FAdd(fv, FromInt(P.RESIN_EDGE)), skew))

\* mutant: the buy is capped by the headroom of the sell side
CrossBuyWrongSide(prod, ask, bid_target, pos, lim) ==
    IF ask[1] < bid_target /\ pos < lim
    THEN LET qty == Min(-ask[2], lim + pos)
         IN  IF qty > 0 THEN <<Order(prod, ask[1], qty, "cross_buy")>> ELSE <<>>
    ELSE <<>>

CrossBuy(prod, ask, bid_target, pos, lim) ==
    IF ask[1] < bid_target /\ pos < lim
    THEN LET qty == Min(-ask[2], lim - pos)
         IN  IF qty > 0 THEN <<Order(prod, ask[1], qty, "cross_buy")>> ELSE <<>>
    ELSE <<>>

CrossSell(prod, bid, ask_target, pos, lim) ==
    IF bid[1] > ask_target /\ pos > -lim
    THEN LET qty == Min(bid[2], lim + pos)
         IN  IF qty > 0 THEN <<Order(prod, bid[1], -qty, "cross_sell")>> ELSE <<>>
    ELSE <<>>

\* mutant: the passive bid is posted only when a full clip fits
PassiveBidFullClip(P, prod, bid_target, pos, lim) ==
    IF lim - pos >= P.PASSIVE_QTY
    THEN <<Order(prod, bid_target, P.PASSIVE_QTY, "passive_bid")>>
    ELSE <<>>

PassiveBid(P, prod, bid_target, pos, lim) ==
    IF lim - pos > 0
    THEN <<Order(prod, bid_target, Min(P.PASSIVE_QTY, lim - pos), "passive_bid")>>
    ELSE <<>>

PassiveAsk(P, prod, ask_target, pos, lim) ==
    IF lim + pos > 0
    THEN <<Order(prod, ask_target, -Min(P.PASSIVE_QTY, lim + pos), "passive_ask")>>
    ELSE <<>>

\* the orders of lines 55-69, given the two targets
ResinOrders(P, prod, bid, ask, pos, lim, bid_target, ask_target) ==
    CrossBuy(prod, ask, bid_target, pos, lim)
    \o CrossSell(prod, bid, ask_target, pos, lim)
    \o PassiveBid(P, prod, bid_target, pos, lim)
    \o PassiveAsk(P, prod, ask_target, pos, lim)

\* the orders, given fv and skew
ResinQuotes(P, prod, bid, ask, pos, lim, fv, skew) ==
    ResinOrders(P, prod, bid, ask, pos, lim,
                BidTarget(P, fv, skew), AskTarget(P, fv, skew))

\* the branch from line 48 on, given fv
ResinAt(P, prod, bid, ask, pos, lim, mem, fv) ==
    [mem    |-> Put(mem, "fv_resin", fv),
     orders |-> ResinQuotes(P, prod, bid, ask, pos, lim, fv, Skew(P, pos, lim))]

\* [mem, orders] of the RAINFOREST_RESIN branch; fv_prev is
\* mem.setdefault("fv_resin", mid)
Resin(P, prod, bid, ask, mid, pos, lim, mem) ==
    ResinAt(P, prod, bid, ask, pos, lim, mem,
            Ema(P.RESIN_ALPHA, mid, Get(mem, "fv_resin", mid)))

(***************************************************************************)
(* src/round_1.py: Trader                                                  *)
(***************************************************************************)
R1_LIMITS == [RAINFOREST_RESIN |-> 50, KELP |-> 50, SQUID_INK |-> 50]

R1_RESIN ==
    [RESIN_ALPHA |-> FDivInts(1, 10),      \* 0.1
     RESIN_EDGE  |-> 1,
     PASSIVE_QTY |-> 12,
     INV_SKEW    |-> FDivInts(3, 100)]     \* 0.03

R1_SQUID_WINDOW == 100
R1_SQUID_SPREAD_THRESHOLD == FromHalves(5) \* 2.5
R1_SQUID_TRADE_SIZE == 5

\* lines 62-67, given deviation
R1SquidOrders(prod, bid, ask, pos, lim, deviation) ==
    IF FGt(deviation, R1_SQUID_SPREAD_THRESHOLD) /\ pos > -lim
    THEN <<Order(prod, bid[1], -Min(R1_SQUID_TRADE_SIZE, lim + pos), "squid_sell")>>
    ELSE IF FLt(deviation, FNeg(R1_SQUID_SPREAD_THRESHOLD)) /\ pos < lim
    THEN <<Order(prod, ask[1], Min(R1_SQUID_TRADE_SIZE, lim - pos), "squid_buy")>>
    ELSE <<>>

\* lines 56-67, given roll after the append of line 54
R1SquidRolled(prod, bid, ask, mid, pos, lim, mem, roll) ==
    IF Len(roll.items) < R1_SQUID_WINDOW
    THEN [mem |-> Put(mem, "squid_roll", roll), orders |-> <<>>, emit |-> FALSE,
          exc |-> NoExc]
    ELSE [mem |-> Put(mem, "squid_roll", roll), emit |-> TRUE, exc |-> NoExc,
          orders |-> R1SquidOrders(prod, bid, ask, pos, lim,
                                   FSub(mid, Mean(roll.items)))]

\* the books of KELP are both non-empty (line 48)
PairedMid(kelp) == DOMAIN kelp.buy_orders # {} /\ DOMAIN kelp.sell_orders # {}

\* the SQUID_INK branch once both of its book sides are known:
\* [mem, orders, emit, exc]; emit says whether results[prod] is assigned
R1Squid(prod, bid, ask, mid, pos, lim, st, mem) ==
    IF "KELP" \notin Keys(st.order_depths)
    THEN [mem |-> mem, orders |-> <<>>, emit |-> FALSE, exc |-> "KeyError"]
    ELSE IF ~PairedMid(DepthOf(st.order_depths, "KELP"))
    THEN [mem |-> mem, orders |-> <<>>, emit |-> FALSE, exc |-> NoExc]
    ELSE R1SquidRolled(prod, bid, ask, mid, pos, lim, mem,
                       DequeAppend(Get(mem, "squid_roll", Deque(R1_SQUID_WINDOW)), mid))

\* the loop's state after a branch that came out as r
R1After(acc, prod, r) ==
    [mem     |-> r.mem,
     results |-> IF r.emit THEN Put(acc.results, prod, r.orders) ELSE acc.results,
     exc     |-> r.exc]

\* the RAINFOREST_RESIN branch always reaches line 98
R1Resin(r) == [mem |-> r.mem, orders |-> r.orders, emit |-> TRUE, exc |-> NoExc]

\* one iteration of the loop, given the best bid and ask
R1Branch(prod, bid, ask, st, acc, pos, lim) ==
    IF bid[1] = None \/ ask[1] = None THEN acc
    ELSE IF prod = "RAINFOREST_RESIN"
    THEN R1After(acc, prod,
                 R1Resin(Resin(R1_RESIN, prod, bid, ask, FromHalves(bid[1] + ask[1]),
                               pos, lim, acc.mem)))
    ELSE IF prod = "KELP" THEN acc
    ELSE IF prod = "SQUID_INK"
    THEN R1After(acc, prod,
                 R1Squid(prod, bid, ask, FromHalves(bid[1] + ask[1]), pos, lim, st,
                         acc.mem))
    ELSE [acc EXCEPT !.results = Put(acc.results, prod, <<>>)]

\* the bid and the ask of Trader._best
BestBid(depth) == Best(depth)[1]
BestAsk(depth) == Best(depth)[2]

\* one iteration of the loop over state.order_depths.items()
R1Product(prod, depth, st, acc) ==
    R1Branch(prod, BestBid(depth), BestAsk(depth), st, acc,
             Get(st.position, prod, 0), Get(R1_LIMITS, prod, 0))

RECURSIVE R1Loop(_, _, _)
R1Loop(st, i, acc) ==
    IF i > Len(st.order_depths) \/ acc.exc # NoExc THEN acc
    ELSE R1Loop(st, i + 1,
                R1Product(st.order_depths[i][1], st.order_depths[i][2], st, acc))

\* Trader.run: [mem, results, exc]
R1RunOf(data, st) ==
    R1Loop(st, 1, [mem |-> LoadMem(data), results |-> EmptyDict, exc |-> NoExc])

\* the number of runs explored from an initial state
R1MaxTicks == 2

(***************************************************************************)
(* The ticks explored for src/round_1.py.  Positions lie within the        *)
(* limits, as the exchange keeps them.                                     *)
(***************************************************************************)
ResinFull ==
    { Depth((12 :> 5) @@ (10 :> 30), (14 :> -5) @@ (15 :> -30)),
      Depth((8 :> 60), (9 :> -60)),
      Depth((17 :> 60), (18 :> -60)) }
ResinOneSided == { Depth((12 :> 5), EmptyDict), Depth(EmptyDict, (14 :> -5)) }
ResinPositions == {-50, 0, 45, 50}

KelpFull == Depth((30 :> 20), (32 :> -20))
KelpNoAsks == Depth((30 :> 20), EmptyDict)

SquidFull ==
    { Depth((19 :> 10), (21 :> -10)),
      Depth((22 :> 10), (24 :> -10)),
      Depth((16 :> 10), (18 :> -10)) }
SquidNoBids == Depth(EmptyDict, (21 :> -10))
SquidPositions == {-50, -48, 48, 50}

R1States ==
    { TradingState(<<<<"RAINFOREST_RESIN", d>>>>, ("RAINFOREST_RESIN" :> p)) :
        d \in ResinFull \cup ResinOneSided, p \in ResinPositions }
    \cup
    { TradingState(<<<<"RAINFOREST_RESIN", d>>>>, EmptyDict) : d \in ResinFull }
    \cup
    { TradingState(<<<<"KELP", KelpFull>>, <<"SQUID_INK", d>>>>, ("SQUID_INK" :> p)) :
        d \in SquidFull \cup {SquidNoBids}, p \in SquidPositions }
    \cup
    { TradingState(<<<<"KELP", KelpNoAsks>>, <<"SQUID_INK", d>>>>, EmptyDict) :
        d \in SquidFull }
    \cup
    { TradingState(<<<<"SQUID_INK", d>>, <<"RAINFOREST_RESIN", r>>, <<"KELP", KelpFull>>>>,
                   EmptyDict) :
        d \in SquidFull, r \in ResinOneSided }
    \cup
    { TradingState(<<<<"SQUID_INK", d>>>>, EmptyDict) : d \in SquidFull }
    \cup
    { TradingState(<<<<"DJEMBES", KelpFull>>>>, EmptyDict) }

\* the memory after n ticks that each showed SQUID_INK the book 19 / 21
R1Warm(n) ==
    Encode("squid_roll" :> [maxlen |-> R1_SQUID_WINDOW, items |-> Repeat(FromInt(20), n)])

R1Init ==
    /\ \/ traderData = NoData
       \/ traderData = R1Warm(R1_SQUID_WINDOW - 2)
       \/ traderData = R1Warm(R1_SQUID_WINDOW)
    /\ state = NoState
    /\ results = EmptyDict
    /\ outcome = "init"
    /\ tick = 0
    /\ self = EmptyDict
    /\ win = Deque(0)
    /\ pushed = <<>>

R1Run ==
    /\ outcome \in {"init", "returned"}
    /\ tick < R1MaxTicks
    /\ \E st \in R1States : Ran(st, R1RunOf(traderData, st))
    /\ tick' = tick + 1
    /\ UNCHANGED <<self, win, pushed>>

R1Next == R1Run

SpecR1 == R1Init /\ [][R1Next]_vars

(***************************************************************************)
(* Properties of the quoting path (src/round_1.py).                        *)
(***************************************************************************)
RESIN == "RAINFOREST_RESIN"

\* the product is in the snapshot with a best bid and a best ask
Legs(os, leg) == {i \in 1..Len(os) : os[i].leg = leg}
BuyTotal(os) == SumQty(SelectSeq(os, LAMBDA o : o.quantity > 0))
SellTotal(os) == -SumQty(SelectSeq(os, LAMBDA o : o.quantity < 0))

\* the run just made quoted RAINFOREST_RESIN
R1Quoted == outcome = "returned" /\ tick > 0 /\ HasBook(state, RESIN)

R1Lim == R1_LIMITS[RESIN]
R1Fv == LoadMem(traderData)["fv_resin"]
R1Skew == Skew(R1_RESIN, PosOf(state, RESIN), R1Lim)
R1BidTarget == BidTarget(R1_RESIN, R1Fv, R1Skew)
R1AskTarget == AskTarget(R1_RESIN, R1Fv, R1Skew)

\* C2: in every tick of the quoting path the buy orders emitted total at most
\* limit - position and the sell orders total at most limit + position
C2_QuoteTotalsWithinHeadroom ==
    R1Quoted =>
        /\ BuyTotal(OrdersOf(RESIN)) <= R1Lim - PosOf(state, RESIN)
        /\ SellTotal(OrdersOf(RESIN)) <= R1Lim + PosOf(state, RESIN)

\* C5: the first mid-price observed is stored as the fair value exactly, and
\* every later tick stores alpha * mid + (1 - alpha) * previous fair value
C5_EmaSeedAndRecurrence ==
    [][(outcome' = "returned" /\ HasBook(state', RESIN)) =>
         IF "fv_resin" \in DOMAIN LoadMem(traderData)
         THEN LoadMem(traderData')["fv_resin"]
              = Ema(R1_RESIN.RESIN_ALPHA, MidOf(state', RESIN),
                    LoadMem(traderData)["fv_resin"])
         ELSE LoadMem(traderData')["fv_resin"] = MidOf(state', RESIN)]_vars

\* C9: a spread-cross buy of min(-ask volume, limit - position) at the best ask
\* is emitted exactly when best ask < bid_target, limit - position > 0 and the
\* quantity is positive; symmetrically for the spread-cross sell
C9_SpreadCross ==
    R1Quoted =>
        LET os   == OrdersOf(RESIN)
            pos  == PosOf(state, RESIN)
            bid  == BidOf(state, RESIN)
            ask  == AskOf(state, RESIN)
            bqty == Min(-ask[2], R1Lim - pos)
            sqty == Min(bid[2], R1Lim + pos)
        IN  /\ Cardinality(Legs(os, "cross_buy")) =
                 (IF ask[1] < R1BidTarget /\ R1Lim - pos > 0 /\ bqty > 0 THEN 1 ELSE 0)
            /\ \A i \in Legs(os, "cross_buy") :
                 os[i].price = ask[1] /\ os[i].quantity = bqty /\ os[i].symbol = RESIN
            /\ Cardinality(Legs(os, "cross_sell")) =
                 (IF bid[1] > R1AskTarget /\ R1Lim + pos > 0 /\ sqty > 0 THEN 1 ELSE 0)
            /\ \A i \in Legs(os, "cross_sell") :
                 os[i].price = bid[1] /\ os[i].quantity = -sqty /\ os[i].symbol = RESIN

C9_Witness ==
    /\ R1Quoted
    /\ Legs(OrdersOf(RESIN), "cross_buy") # {}
    /\ AskOf(state, RESIN)[1] < R1BidTarget

\* C10: whenever the quoting product has both book sides, a passive bid at
\* bid_target of min(PASSIVE_QTY, limit - position) is emitted exactly when
\* limit - position > 0, a passive ask at ask_target of
\* min(PASSIVE_QTY, limit + position) exactly when limit + position > 0, and
\* the passive orders follow the spread-cross orders in the list
C10_PassiveQuotes ==
    R1Quoted =>
        LET os  == OrdersOf(RESIN)
            pos == PosOf(state, RESIN)
        IN  /\ RESIN \in DOMAIN results
            /\ Cardinality(Legs(os, "passive_bid")) = (IF R1Lim - pos > 0 THEN 1 ELSE 0)
            /\ \A i \in Legs(os, "passive_bid") :
                 /\ os[i].price = R1BidTarget
                 /\ os[i].quantity = Min(R1_RESIN.PASSIVE_QTY, R1Lim - pos)
            /\ Cardinality(Legs(os, "passive_ask")) = (IF R1Lim + pos > 0 THEN 1 ELSE 0)
            /\ \A i \in Legs(os, "passive_ask") :
                 /\ os[i].price = R1AskTarget
                 /\ os[i].quantity = -Min(R1_RESIN.PASSIVE_QTY, R1Lim + pos)
            /\ \A i \in Legs(os, "cross_buy") \cup Legs(os, "cross_sell") :
                 \A j \in Legs(os, "passive_bid") \cup Legs(os, "passive_ask") : i < j
            /\ \A i \in Legs(os, "passive_bid") : \A j \in Legs(os, "passive_ask") : i < j

\* both passive quotes go out behind a spread-cross order
C10_Witness ==
    /\ R1Quoted
    /\ Legs(OrdersOf(RESIN), "cross_sell") # {}
    /\ Legs(OrdersOf(RESIN), "passive_bid") # {}
    /\ Legs(OrdersOf(RESIN), "passive_ask") # {}

\* n is the integer nearest to the float x, the lower one in a tie:
\* n - 1/2 < x <= n + 1/2
NearestTiesDown(n, x) ==
    /\ FGt(x, FromHalves(2 * n - 1))
    /\ ~FGt(x, FromHalves(2 * n + 1))

\* the floats fv - RESIN_EDGE - skew and fv + RESIN_EDGE - skew of the run
\* just made
R1BidRaw == FSub(FSub(R1Fv, FromInt(R1_RESIN.RESIN_EDGE)), R1Skew)
R1AskRaw == FSub(FAdd(R1Fv, FromInt(R1_RESIN.RESIN_EDGE)), R1Skew)

\* C11: the passive quotes are priced at the integers nearest to
\* fv - edge - skew and fv + edge - skew, ties rounded down
C11_TargetsNearestInteger ==
    R1Quoted =>
        LET os == OrdersOf(RESIN)
        IN  /\ \A i \in Legs(os, "passive_bid") : NearestTiesDown(os[i].price, R1BidRaw)
            /\ \A i \in Legs(os, "passive_ask") : NearestTiesDown(os[i].price, R1AskRaw)

\* Trader.run from line 33 on, started on the memory dict mem itself
R1RunOn(mem, st) ==
    R1Loop(st, 1, [mem |-> mem, results |-> EmptyDict, exc |-> NoExc])

\* snapshots for a next tick: one that updates the fair value, two that push
\* into the window and trade on it
R1NextTicks ==
    { TradingState(<<<<"RAINFOREST_RESIN", Depth((17 :> 60), (18 :> -60))>>>>,
                   ("RAINFOREST_RESIN" :> 45)),
      TradingState(<<<<"KELP", KelpFull>>,
                     <<"SQUID_INK", Depth((22 :> 10), (24 :> -10))>>>>,
                   ("SQUID_INK" :> -48)),
      TradingState(<<<<"SQUID_INK", Depth((16 :> 10), (18 :> -10))>>,
                     <<"RAINFOREST_RESIN", Depth((12 :> 5), EmptyDict)>>,
                     <<"KELP", KelpFull>>>>, EmptyDict) }

T2_LIMITS ==
    [RAINFOREST_RESIN |-> 50, KELP |-> 50, SQUID_INK |-> 50, CROISSANTS |-> 250,
     JAMS |-> 350, DJEMBES |-> 60, PICNIC_BASKET1 |-> 60, PICNIC_BASKET2 |-> 100]

DIFF_WINDOW == 40
SIGMA_MULTIPLIER == <<3, 2>>        \* 1.5 = 3 / 2
BASKET_TRADE_SIZE == 2
MIN_LIQUIDITY == 10
DIFF_WINDOW_2 == 50
SIGMA_MULTIPLIER_2 == <<2, 1>>      \* 2.0
BASKET2_TRADE_SIZE == 1

\* bests: for each of prods that is in the snapshot, its best bid and ask
T2Bests(st, prods) ==
    [prod \in prods \cap Keys(st.order_depths) |->
        LET b == Best(DepthOf(st.order_depths, prod))
        IN  [bid_px |-> b[1][1], bid_vol |-> b[1][2],
             ask_px |-> b[2][1], ask_vol |-> b[2][2]]]

\* safe_mid(prod) is not None
HasMid(bests, prod) ==
    /\ prod \in DOMAIN bests
    /\ bests[prod].bid_px # None
    /\ bests[prod].ask_px # None

\* safe_mid(prod) = (b + a) / 2
SafeMid(bests, prod) == FromHalves(bests[prod].bid_px + bests[prod].ask_px)

RECURSIVE SumSqHalvesIn(_, _, _)
SumSqHalvesIn(xs, lo, hi) ==
    IF lo > hi THEN 0
    ELSE IF lo = hi THEN Halves(xs[lo]) * Halves(xs[lo])
    ELSE LET m == (lo + hi) \div 2
         IN  SumSqHalvesIn(xs, lo, m) + SumSqHalvesIn(xs, m + 1, hi)

\* n^2 times the population variance of a window of multiples of 1/2, in
\* units of 1/4: stats.pstdev(xs) = sqrt(Spread(xs)) / (2 * n) and
\* stats.stdev(xs) = sqrt(Spread(xs) / (4 * n * (n - 1)))
Spread(xs) ==
    Len(xs) * SumSqHalvesIn(xs, 1, Len(xs)) - SumHalves(xs) * SumHalves(xs)

(***************************************************************************)
(* The outcomes of  x > stats.mean(xs) + k * stats.pstdev(xs)  for a       *)
(* window xs of multiples of 1/2, x = h / 2 and k = k[1] / k[2].  With     *)
(* n = len(xs) and S the sum of the doubled items, mean = S / 2n and       *)
(* pstdev = sqrt(Q) / 2n for Q = Spread(xs), so the comparison is          *)
(* L > k[1] * sqrt(Q)  for L = k[2] * (n * h - S).  The                    *)
(* floats of the code round the two sides by a few units in the last       *)
(* place, far less than the gap between the sides whenever                 *)
(* L^2 # k[1]^2 * Q; all items equal (Q = 0) is computed exactly.  Only in *)
(* an exact tie with Q > 0 does the rounding decide: both outcomes.        *)
(***************************************************************************)
ExceedsBy(L, Q, k) ==
    IF L <= 0 THEN {FALSE}
    ELSE IF L * L > k[1] * k[1] * Q THEN {TRUE}
    ELSE IF L * L = k[1] * k[1] * Q THEN BOOLEAN
    ELSE {FALSE}

Exceeds(xs, h, k) == ExceedsBy(k[2] * (Len(xs) * h - SumHalves(xs)), Spread(xs), k)

\* "long": diff > dynamic_threshold; "short": diff < -dynamic_threshold
Signals(xs, diff, k) ==
    { IF above THEN "long" ELSE IF below THEN "short" ELSE "flat" :
        above \in Exceeds(xs, Halves(diff), k),
        below \in Exceeds(xs, -Halves(diff), k) }

B1Prods == {"PICNIC_BASKET1", "CROISSANTS", "JAMS", "DJEMBES"}
B2Prods == {"PICNIC_BASKET2", "CROISSANTS", "JAMS"}

\* comp_price - basket_mid of PICNIC_BASKET1
B1Diff(bests) ==
    FSub(FAdd(FAdd(FMul(FromInt(6), SafeMid(bests, "CROISSANTS")),
                   FMul(FromInt(3), SafeMid(bests, "JAMS"))),
              FMul(FromInt(1), SafeMid(bests, "DJEMBES"))),
         SafeMid(bests, "PICNIC_BASKET1"))

\* comp_price_2 - basket2_mid of PICNIC_BASKET2
B2Diff(bests) ==
    FSub(FAdd(FMul(FromInt(4), SafeMid(bests, "CROISSANTS")),
              FMul(FromInt(2), SafeMid(bests, "JAMS"))),
         SafeMid(bests, "PICNIC_BASKET2"))

\* the legs of PICNIC_BASKET1 (lines 116-139) under the signal sig
B1Legs(st, bests, sig) ==
    LET pos(p) == Get(st.position, p, 0)
        buy(p, q) ==
            IF pos(p) < T2_LIMITS[p] /\ bests[p].ask_vol >= MIN_LIQUIDITY
            THEN <<Order(p, bests[p].ask_px, q, "pb1")>> ELSE <<>>
        sell(p, q) ==
            IF pos(p) > -T2_LIMITS[p] /\ bests[p].bid_vol >= MIN_LIQUIDITY
            THEN <<Order(p, bests[p].bid_px, -q, "pb1")>> ELSE <<>>
    IN  IF sig = "long"
        THEN buy("PICNIC_BASKET1", BASKET_TRADE_SIZE)
             \o sell("CROISSANTS", 6) \o sell("JAMS", 3) \o sell("DJEMBES", 1)
        ELSE IF sig = "short"
        THEN sell("PICNIC_BASKET1", BASKET_TRADE_SIZE)
             \o buy("CROISSANTS", 6) \o buy("JAMS", 3) \o buy("DJEMBES", 1)
        ELSE <<>>

\* mutant: the legs of PICNIC_BASKET2 go out together or not at all
B2LegsTogether(st, bests, sig) ==
    LET pos(p) == Get(st.position, p, 0)
        buy(p, q) ==
            IF pos(p) < T2_LIMITS[p] /\ bests[p].ask_px # 0
               /\ bests[p].ask_vol <= -MIN_LIQUIDITY
            THEN <<Order(p, bests[p].ask_px, q, "pb2")>> ELSE <<>>
        sell(p, q) ==
            IF pos(p) > -T2_LIMITS[p] /\ bests[p].bid_px # 0
               /\ bests[p].bid_vol >= MIN_LIQUIDITY
            THEN <<Order(p, bests[p].bid_px, -q, "pb2")>> ELSE <<>>
        long  == buy("PICNIC_BASKET2", BASKET2_TRADE_SIZE)
                 \o sell("CROISSANTS", 4) \o sell("JAMS", 2)
        short == sell("PICNIC_BASKET2", BASKET2_TRADE_SIZE)
                 \o buy("CROISSANTS", 4) \o buy("JAMS", 2)
    IN  IF sig = "long" /\ Len(long) = 3 THEN long
        ELSE IF sig = "short" /\ Len(short) = 3 THEN short
        ELSE <<>>

\* the legs of PICNIC_BASKET2 (lines 211-234) under the signal sig
B2Legs(st, bests, sig) ==
    LET pos(p) == Get(st.position, p, 0)
        buy(p, q) ==
            IF pos(p) < T2_LIMITS[p] /\ bests[p].ask_px # 0
               /\ bests[p].ask_vol <= -MIN_LIQUIDITY
            THEN <<Order(p, bests[p].ask_px, q, "pb2")>> ELSE <<>>
        sell(p, q) ==
            IF pos(p) > -T2_LIMITS[p] /\ bests[p].bid_px # 0
               /\ bests[p].bid_vol >= MIN_LIQUIDITY
            THEN <<Order(p, bests[p].bid_px, -q, "pb2")>> ELSE <<>>
    IN  IF sig = "long"
        THEN buy("PICNIC_BASKET2", BASKET2_TRADE_SIZE)
             \o sell("CROISSANTS", 4) \o sell("JAMS", 2)
        ELSE IF sig = "short"
        THEN sell("PICNIC_BASKET2", BASKET2_TRADE_SIZE)
             \o buy("CROISSANTS", 4) \o buy("JAMS", 2)
        ELSE <<>>

\* mem with both histories present (lines 45 and 48)
T2Mem(data) ==
    SetDefault(SetDefault(LoadMem(data), "basket_diff_history", Deque(DIFF_WINDOW)),
               "basket2_diff_history", Deque(DIFF_WINDOW_2))

\* the basket and every component of the group have a mid-price
B1Complete(bests) == \A p \in B1Prods : HasMid(bests, p)
B2Complete(bests) == \A p \in B2Prods : HasMid(bests, p)

\* a group's history after this tick: the diff is appended when the group
\* is complete
\* mutant: a tick without complete data pushes a zero diff
B1PushedAnyway(hist, bests) ==
    IF B1Complete(bests) THEN DequeAppend(hist, B1Diff(bests))
    ELSE DequeAppend(hist, FZero)

B1Pushed(hist, bests) ==
    IF B1Complete(bests) THEN DequeAppend(hist, B1Diff(bests)) ELSE hist
\* mutant: nothing is stored until the window could be filled in one push
B2PushedWhenFull(hist, bests) ==
    IF B2Complete(bests) /\ Len(hist.items) + 1 >= hist.maxlen
    THEN DequeAppend(hist, B2Diff(bests)) ELSE hist

B2Pushed(hist, bests) ==
    IF B2Complete(bests) THEN DequeAppend(hist, B2Diff(bests)) ELSE hist

B1Hist(data, st) ==
    B1Pushed(T2Mem(data)["basket_diff_history"], T2Bests(st, B1Prods))
B2Hist(data, st) ==
    B2Pushed(T2Mem(data)["basket2_diff_history"], T2Bests(st, B2Prods))

\* a gate that opens one observation early
WarmEarly(hist, window) == Len(hist.items) >= window - 1

\* the threshold is evaluated once the history holds the window
Warm(hist, window) == Len(hist.items) >= window

\* the last item of a history: the diff just appended
LastOf(hist) == hist.items[Len(hist.items)]

\* the signals the comparisons of this tick can yield for a group
GroupSignals(complete, hist, window, k) ==
    IF complete /\ Warm(hist, window)
    THEN Signals(hist.items, LastOf(hist), k)
    ELSE {"flat"}

B1Signals(data, st) ==
    GroupSignals(B1Complete(T2Bests(st, B1Prods)), B1Hist(data, st),
                 DIFF_WINDOW, SIGMA_MULTIPLIER)
B2Signals(data, st) ==
    GroupSignals(B2Complete(T2Bests(st, B2Prods)), B2Hist(data, st),
                 DIFF_WINDOW_2, SIGMA_MULTIPLIER_2)

\* results: results.setdefault(symbol, []).append(order) for each order in turn
Collect(orders) ==
    [p \in {orders[i].symbol : i \in 1..Len(orders)} |->
        SelectSeq(orders, LAMBDA o : o.symbol = p)]

\* Trader.run: [mem, results, exc]
T2RunOf(data, st, sig1, sig2) ==
    [mem     |-> Put(Put(T2Mem(data), "basket_diff_history", B1Hist(data, st)),
                     "basket2_diff_history", B2Hist(data, st)),
     results |-> Collect(B1Legs(st, T2Bests(st, B1Prods), sig1)
                         \o B2Legs(st, T2Bests(st, B2Prods), sig2)),
     exc     |-> NoExc]

T2MaxTicks == 2

\* a one-level book around the mid-price mid, vol resting on either side
Book(mid, vol) == Depth((mid - 1 :> vol), (mid + 1 :> -vol))

T2Products == <<"PICNIC_BASKET1", "PICNIC_BASKET2", "CROISSANTS", "JAMS", "DJEMBES">>
T2ProductSet == {T2Products[i] : i \in 1..Len(T2Products)}

\* CROISSANTS 5, JAMS 10, DJEMBES 20: the components of PICNIC_BASKET1 are
\* worth 80 and those of PICNIC_BASKET2 40
ComponentMid == [CROISSANTS |-> 5, JAMS |-> 10, DJEMBES |-> 20]
Basket1Mids == {80, 76, 84}
Basket2Mids == {40, 37, 43}

\* the mid-price of each product when the baskets trade at m1 and m2
MidsOf(m1, m2) == ("PICNIC_BASKET1" :> m1) @@ ("PICNIC_BASKET2" :> m2) @@ ComponentMid

\* every product listed, the products of thin with 9 resting, the others 10
Snapshot(m1, m2, thin) ==
    [i \in 1..Len(T2Products) |->
        <<T2Products[i],
          Book(MidsOf(m1, m2)[T2Products[i]], IF T2Products[i] \in thin THEN 9 ELSE 10)>>]

\* the snapshot with the book of prod replaced by depth
WithBook(depths, prod, depth) ==
    [i \in 1..Len(depths) |-> IF depths[i][1] = prod THEN <<prod, depth>> ELSE depths[i]]

\* the snapshot without prod
Without(depths, prod) == SelectSeq(depths, LAMBDA e : e[1] # prod)

T2Positions ==
    { EmptyDict,
      [p \in T2ProductSet |-> T2_LIMITS[p]],
      [p \in T2ProductSet |-> -T2_LIMITS[p]],
      [p \in T2ProductSet |-> T2_LIMITS[p] - 1],
      [p \in T2ProductSet |-> 1 - T2_LIMITS[p]] }

T2States ==
    { TradingState(Snapshot(m1, m2, {}), pos) :
        m1 \in Basket1Mids, m2 \in Basket2Mids, pos \in T2Positions }
    \cup
    { TradingState(Snapshot(m[1], m[2], {p}), EmptyDict) :
        m \in {<<76, 37>>, <<84, 43>>}, p \in T2ProductSet }
    \cup
    { TradingState(Without(Snapshot(76, 37, {}), p), EmptyDict) : p \in T2ProductSet }
    \cup
    { TradingState(WithBook(Snapshot(76, 37, {}), p, d), EmptyDict) :
        p \in T2ProductSet, d \in {Depth((3 :> 10), EmptyDict), Depth(EmptyDict, (7 :> -10))} }

\* the memory after n1 ticks that showed PICNIC_BASKET1 at the worth of its
\* components, and n2 ticks that showed PICNIC_BASKET2 at the worth of its
T2Warm(n1, n2) ==
    Encode(("basket_diff_history" :>
                [maxlen |-> DIFF_WINDOW, items |-> Repeat(FZero, n1)])
           @@ ("basket2_diff_history" :>
                [maxlen |-> DIFF_WINDOW_2, items |-> Repeat(FZero, n2)]))

\* the number of ticks, since the empty state, on which each group had all
\* of its mid-prices
CompleteTicks(n1, n2) == [pb1 |-> n1, pb2 |-> n2]

\* pushed counts the complete-data ticks of each group
T2Init ==
    /\ \/ traderData = NoData /\ pushed = CompleteTicks(0, 0)
       \/ /\ traderData = T2Warm(DIFF_WINDOW - 2, DIFF_WINDOW_2 - 2)
          /\ pushed = CompleteTicks(DIFF_WINDOW - 2, DIFF_WINDOW_2 - 2)
       \/ /\ traderData = T2Warm(DIFF_WINDOW, DIFF_WINDOW_2)
          /\ pushed = CompleteTicks(DIFF_WINDOW, DIFF_WINDOW_2)
    /\ state = NoState
    /\ results = EmptyDict
    /\ outcome = "init"
    /\ tick = 0
    /\ self = EmptyDict
    /\ win = Deque(0)

\* the counts after a tick on st
T2Counted(seen, st) ==
    CompleteTicks(seen.pb1 + IF B1Complete(T2Bests(st, B1Prods)) THEN 1 ELSE 0,
                  seen.pb2 + IF B2Complete(T2Bests(st, B2Prods)) THEN 1 ELSE 0)

T2Run ==
    /\ outcome \in {"init", "returned"}
    /\ tick < T2MaxTicks
    /\ \E st \in T2States :
         \E sig1 \in B1Signals(traderData, st), sig2 \in B2Signals(traderData, st) :
            /\ Ran(st, T2RunOf(traderData, st, sig1, sig2))
            /\ pushed' = T2Counted(pushed, st)
    /\ tick' = tick + 1
    /\ UNCHANGED <<self, win>>

T2Next == T2Run

SpecT2 == T2Init /\ [][T2Next]_vars

(***************************************************************************)
(* Properties of src/tutorial/round_2.py                                   *)
(***************************************************************************)
T2Returned == outcome = "returned" /\ tick > 0

\* every order the run returned
AllOrders == UNION {{results[p][i] : i \in 1..Len(results[p])} : p \in DOMAIN results}

\* the orders of the group tagged g
GroupOrders(g) == {o \in AllOrders : o.leg = g}

\* the histories the run stored
Hist1 == LoadMem(traderData)["basket_diff_history"]
Hist2 == LoadMem(traderData)["basket2_diff_history"]

\* the run compared this tick's diff of the group with its threshold, and
\* the comparison could only come out as sig
B1Signal(sig) ==
    /\ T2Returned /\ B1Complete(T2Bests(state, B1Prods)) /\ Warm(Hist1, DIFF_WINDOW)
    /\ Signals(Hist1.items, B1Diff(T2Bests(state, B1Prods)), SIGMA_MULTIPLIER) = {sig}
B2Signal(sig) ==
    /\ T2Returned /\ B2Complete(T2Bests(state, B2Prods)) /\ Warm(Hist2, DIFF_WINDOW_2)
    /\ Signals(Hist2.items, B2Diff(T2Bests(state, B2Prods)), SIGMA_MULTIPLIER_2) = {sig}

\* C1: for every product whose start position is within its limit, the
\* start position plus the signed quantities of all orders emitted for it in
\* the tick, over both groups, is within the limit
C1_PositionPlusOrdersWithinLimit ==
    T2Returned =>
        \A p \in DOMAIN results :
            Abs(PosOf(state, p)) <= T2_LIMITS[p] =>
                Abs(PosOf(state, p) + SumQty(results[p])) <= T2_LIMITS[p]

\* C3: every single emitted order is no larger than the headroom on its
\* side: a buy at most limit - position, a sell at most limit + position
C3_EachOrderWithinHeadroom ==
    T2Returned =>
        \A o \in AllOrders :
            /\ o.quantity > 0 => o.quantity <= T2_LIMITS[o.symbol] - PosOf(state, o.symbol)
            /\ o.quantity < 0 => -o.quantity <= T2_LIMITS[o.symbol] + PosOf(state, o.symbol)

\* C4: on a tick after whose push a group's diff history holds fewer than
\* its window of observations, that group emits no order, whatever the diff
C4_WarmUpGating ==
    T2Returned =>
        /\ Len(Hist1.items) < DIFF_WINDOW => GroupOrders("pb1") = {}
        /\ Len(Hist2.items) < DIFF_WINDOW_2 => GroupOrders("pb2") = {}

\* both groups pushed a diff that beats the threshold their short histories
\* would give, one observation short of the window, and neither traded
C4_Witness ==
    /\ T2Returned
    /\ B1Complete(T2Bests(state, B1Prods)) /\ B2Complete(T2Bests(state, B2Prods))
    /\ Len(Hist1.items) = DIFF_WINDOW - 1
    /\ Len(Hist2.items) = DIFF_WINDOW_2 - 1
    /\ Signals(Hist1.items, B1Diff(T2Bests(state, B1Prods)), SIGMA_MULTIPLIER) = {"long"}
    /\ Signals(Hist2.items, B2Diff(T2Bests(state, B2Prods)), SIGMA_MULTIPLIER_2) = {"short"}
    /\ \A p \in T2ProductSet : Abs(PosOf(state, p)) < T2_LIMITS[p]
    /\ AllOrders = {}

\* the leg of group g on prod was emitted: a buy at the best ask (side = 1)
\* or a sell at the best bid (side = -1)
LegEmitted(g, prod, side) ==
    \E o \in GroupOrders(g) :
        /\ o.symbol = prod
        /\ o.quantity * side > 0
        /\ o.price = IF side = 1 THEN AskOf(state, prod)[1] ELSE BidOf(state, prod)[1]

\* the leg has position headroom and the volume resting against it at the
\* best level has magnitude at least MIN_LIQUIDITY
LegOpen(prod, side) ==
    /\ IF side = 1 THEN PosOf(state, prod) < T2_LIMITS[prod]
                   ELSE PosOf(state, prod) > -T2_LIMITS[prod]
    /\ Abs(IF side = 1 THEN AskOf(state, prod)[2] ELSE BidOf(state, prod)[2])
           >= MIN_LIQUIDITY

\* C8: a warmed-up group whose diff is above the threshold emits every open
\* leg, a buy of the basket and a sell of each component; below minus the
\* threshold, a sell of the basket and a buy of each component; for
\* PICNIC_BASKET1 and PICNIC_BASKET2 alike
C8_OpenLegsEmitted ==
    /\ B1Signal("long") =>
        /\ LegOpen("PICNIC_BASKET1", 1) => LegEmitted("pb1", "PICNIC_BASKET1", 1)
        /\ \A c \in B1Prods \ {"PICNIC_BASKET1"} :
               LegOpen(c, -1) => LegEmitted("pb1", c, -1)
    /\ B1Signal("short") =>
        /\ LegOpen("PICNIC_BASKET1", -1) => LegEmitted("pb1", "PICNIC_BASKET1", -1)
        /\ \A c \in B1Prods \ {"PICNIC_BASKET1"} :
               LegOpen(c, 1) => LegEmitted("pb1", c, 1)
    /\ B2Signal("long") =>
        /\ LegOpen("PICNIC_BASKET2", 1) => LegEmitted("pb2", "PICNIC_BASKET2", 1)
        /\ \A c \in B2Prods \ {"PICNIC_BASKET2"} :
               LegOpen(c, -1) => LegEmitted("pb2", c, -1)
    /\ B2Signal("short") =>
        /\ LegOpen("PICNIC_BASKET2", -1) => LegEmitted("pb2", "PICNIC_BASKET2", -1)
        /\ \A c \in B2Prods \ {"PICNIC_BASKET2"} :
               LegOpen(c, 1) => LegEmitted("pb2", c, 1)

\* the elements of a sequence
Elems(seq) == {seq[i] : i \in 1..Len(seq)}

\* the best prices of the two groups in the snapshot of the run just made
Bests1 == T2Bests(state, B1Prods)
Bests2 == T2Bests(state, B2Prods)

\* the orders of a group are those its legs give under a signal that its
\* stored history and this tick's diff can yield
B1TradesNormally ==
    \E sig \in GroupSignals(TRUE, Hist1, DIFF_WINDOW, SIGMA_MULTIPLIER) :
        GroupOrders("pb1") = Elems(B1Legs(state, Bests1, sig))
B2TradesNormally ==
    \E sig \in GroupSignals(TRUE, Hist2, DIFF_WINDOW_2, SIGMA_MULTIPLIER_2) :
        GroupOrders("pb2") = Elems(B2Legs(state, Bests2, sig))

\* C12: on a tick where the basket or a component of a group has no best bid
\* or no best ask, or is absent, the group emits no order and its diff
\* history is as it was, while the other group, when all of its own products
\* have mid-prices, appends its diff and trades as it would otherwise
C12_IncompleteGroupSkipped ==
    [][outcome' = "returned" =>
         /\ ~B1Complete(Bests1') =>
              /\ GroupOrders("pb1")' = {}
              /\ Hist1' = T2Mem(traderData)["basket_diff_history"]
              /\ B2Complete(Bests2') =>
                   /\ Hist2' = DequeAppend(T2Mem(traderData)["basket2_diff_history"],
                                           B2Diff(Bests2'))
                   /\ B2TradesNormally'
         /\ ~B2Complete(Bests2') =>
              /\ GroupOrders("pb2")' = {}
              /\ Hist2' = T2Mem(traderData)["basket2_diff_history"]
              /\ B1Complete(Bests1') =>
                   /\ Hist1' = DequeAppend(T2Mem(traderData)["basket_diff_history"],
                                           B1Diff(Bests1'))
                   /\ B1TradesNormally']_vars

\* PICNIC_BASKET1 lacks a component, nothing is pushed or traded for it, and
\* PICNIC_BASKET2 trades on its own signal
C12_Witness ==
    /\ T2Returned
    /\ ~B1Complete(Bests1) /\ B2Complete(Bests2)
    /\ Len(Hist1.items) = DIFF_WINDOW
    /\ Len(Hist2.items) = DIFF_WINDOW_2
    /\ LastOf(Hist2) # FZero
    /\ GroupOrders("pb1") = {}
    /\ GroupOrders("pb2") # {}

\* the signals a group's comparison can yield on the tick just made when it
\* evaluates its threshold, and "flat" alone when it does not
SignalsWhen(evaluates, hist, k) ==
    IF evaluates THEN Signals(hist.items, LastOf(hist), k) ELSE {"flat"}

\* C19: from the empty state on, a group's diff history gains exactly one
\* observation on each tick on which the basket and all of its components
\* have mid-prices, warm-up ticks and ticks without orders included, and
\* none on other ticks: it holds as many observations as the group has had
\* complete-data ticks, up to its window.  Hence the group evaluates its
\* threshold exactly on its complete-data ticks from the window-th on
C19_OneObservationPerCompleteTick ==
    [][outcome' = "returned" =>
         /\ Hist1' = IF B1Complete(Bests1')
                     THEN DequeAppend(T2Mem(traderData)["basket_diff_history"],
                                      B1Diff(Bests1'))
                     ELSE T2Mem(traderData)["basket_diff_history"]
         /\ Hist2' = IF B2Complete(Bests2')
                     THEN DequeAppend(T2Mem(traderData)["basket2_diff_history"],
                                      B2Diff(Bests2'))
                     ELSE T2Mem(traderData)["basket2_diff_history"]
         /\ Len(Hist1'.items) = Min(pushed'.pb1, DIFF_WINDOW)
         /\ Len(Hist2'.items) = Min(pushed'.pb2, DIFF_WINDOW_2)
         /\ (B1Complete(Bests1') /\ Warm(Hist1', DIFF_WINDOW))
               <=> (B1Complete(Bests1') /\ pushed'.pb1 >= DIFF_WINDOW)
         /\ (B2Complete(Bests2') /\ Warm(Hist2', DIFF_WINDOW_2))
               <=> (B2Complete(Bests2') /\ pushed'.pb2 >= DIFF_WINDOW_2)
         /\ \E sig \in SignalsWhen(B1Complete(Bests1') /\ pushed'.pb1 >= DIFF_WINDOW,
                                   Hist1', SIGMA_MULTIPLIER) :
                GroupOrders("pb1")' = Elems(B1Legs(state', Bests1', sig))
         /\ \E sig \in SignalsWhen(B2Complete(Bests2') /\ pushed'.pb2 >= DIFF_WINDOW_2,
                                   Hist2', SIGMA_MULTIPLIER_2) :
                GroupOrders("pb2")' = Elems(B2Legs(state', Bests2', sig))]_vars

\* PICNIC_BASKET1 trades on its window-th complete-data tick, the first that
\* evaluates its threshold, after a warm-up tick without orders, while
\* PICNIC_BASKET2, absent from this tick, is one observation short
C19_Witness ==
    /\ T2Returned /\ tick = 2
    /\ B1Complete(Bests1) /\ ~B2Complete(Bests2)
    /\ pushed = CompleteTicks(DIFF_WINDOW, DIFF_WINDOW_2 - 1)
    /\ Len(Hist1.items) = DIFF_WINDOW
    /\ Len(Hist2.items) = DIFF_WINDOW_2 - 1
    /\ GroupOrders("pb1") # {}
    /\ GroupOrders("pb2") = {}

\* the quantity a leg of a group trades in a product
LegQty(g, prod) ==
    IF g = "pb1"
    THEN (("PICNIC_BASKET1" :> BASKET_TRADE_SIZE) @@ ("CROISSANTS" :> 6)
          @@ ("JAMS" :> 3) @@ ("DJEMBES" :> 1))[prod]
    ELSE (("PICNIC_BASKET2" :> BASKET2_TRADE_SIZE) @@ ("CROISSANTS" :> 4)
          @@ ("JAMS" :> 2))[prod]

\* legs holds an order on that side of prod
LegIn(legs, prod, side) ==
    \E i \in 1..Len(legs) : legs[i].symbol = prod /\ legs[i].quantity * side > 0

\* st shows prod with the position and the best bid and ask of the run just
\* made
SameOwn(st, prod) ==
    /\ prod \in Keys(st.order_depths)
    /\ PosOf(st, prod) = PosOf(state, prod)
    /\ BidOf(st, prod) = BidOf(state, prod)
    /\ AskOf(st, prod) = AskOf(state, prod)

\* C13: in a triggered group every emitted leg has position headroom and
\* opposing volume of magnitude at least MIN_LIQUIDITY, trades the fixed
\* quantity of its group, and is emitted or not as it would be under the same
\* signal on any other tick that shows its product with the same position and
\* the same best bid and ask, whatever the other legs meet
C13_LegsIndependent ==
    T2Returned =>
        /\ \A o \in AllOrders :
              /\ LegOpen(o.symbol, IF o.quantity > 0 THEN 1 ELSE -1)
              /\ Abs(o.quantity) = LegQty(o.leg, o.symbol)
        /\ \A sig \in {"long", "short"} : B1Signal(sig) =>
              \A st \in T2States : B1Complete(T2Bests(st, B1Prods)) =>
                  \A p \in B1Prods : SameOwn(st, p) =>
                      \A side \in {1, -1} :
                          LegIn(B1Legs(st, T2Bests(st, B1Prods), sig), p, side)
                              <=> LegEmitted("pb1", p, side)
        /\ \A sig \in {"long", "short"} : B2Signal(sig) =>
              \A st \in T2States : B2Complete(T2Bests(st, B2Prods)) =>
                  \A p \in B2Prods : SameOwn(st, p) =>
                      \A side \in {1, -1} :
                          LegIn(B2Legs(st, T2Bests(st, B2Prods), sig), p, side)
                              <=> LegEmitted("pb2", p, side)

\* PICNIC_BASKET2 is triggered, too little rests against its CROISSANTS leg,
\* and the two other legs go out
C13_Witness ==
    /\ B2Signal("long")
    /\ ~LegOpen("CROISSANTS", -1)
    /\ ~LegEmitted("pb2", "CROISSANTS", -1)
    /\ LegEmitted("pb2", "PICNIC_BASKET2", 1)
    /\ LegEmitted("pb2", "JAMS", -1)

(***************************************************************************)
(* src/tutorial/test.py: Trader (RAINFOREST_RESIN market maker; every      *)
(* other product takes the KELP branch)                                    *)
(***************************************************************************)
TT_LIMITS == [RAINFOREST_RESIN |-> 50, KELP |-> 50]

TT_RESIN ==
    [RESIN_ALPHA |-> FDivInts(1, 5),       \* 0.20
     RESIN_EDGE  |-> 2,
     PASSIVE_QTY |-> 3,
     INV_SKEW    |-> FDivInts(1, 25)]      \* 0.04

KELP_ALPHA == FDivInts(1, 10)              \* 0.10
KELP_WINDOW == 120
KELP_Z_THRESH == FDivInts(6, 5)            \* 1.2
KELP_MEAN_SIZE == 5
KELP_MOM_SIZE == 2
MOMENTUM_LAG == 3

FAbs(x) == [x EXCEPT !.sgn = 1]
FPos(x) == x.man # <<>> /\ x.sgn = 1
FNegative(x) == x.man # <<>> /\ x.sgn = -1

(***************************************************************************)
(* abs(z) > 1.2 for z = d / stats.stdev(xs), d # 0 and Spread(xs) > 0, is  *)
(* d^2 * 100 * n * (n - 1) > 36 * Spread(xs) in exact arithmetic.  ZSides  *)
(* gives the two sides as naturals scaled by the same power of two.        *)
(***************************************************************************)
ZScaled(a, b, e) == IF e >= 0 THEN <<BShl(a, 2 * e), b>> ELSE <<a, BShl(b, -2 * e)>>

ZSides(xs, d) ==
    ZScaled(BMul(BMul(d.man, d.man), BFromNat(100 * Len(xs) * (Len(xs) - 1))),
            BMul(BFromNat(36), BFromNat(Spread(xs))),
            d.exp)

ZGap(a, b) == IF BCmp(a, b) >= 0 THEN BSub(a, b) ELSE BSub(b, a)

\* the two sides differ by less than 2^-40 of their size: the roundings of
\* stdev, of the division and of the literal 1.2 decide the comparison
ZNear(ab) == BCmp(BShl(ZGap(ab[1], ab[2]), 40), ab[2]) <= 0

\* tie is the outcome of a comparison the roundings decide
ZAbove(ab, tie) == IF ZNear(ab) THEN tie ELSE BCmp(ab[1], ab[2]) > 0

\* lines 84-85 and the tests of lines 97, 98 and 104 on z:
\* "high" (abs(z) > KELP_Z_THRESH and z > 0), "low" (and z < 0), "calm", or
\* "ZeroDivisionError" when stdev is 0.0
ZClass(xs, d, tie) ==
    LET side == IF d.sgn > 0 THEN "high" ELSE "low"
    IN  IF Len(xs) > 10
        THEN IF Spread(xs) = 0 THEN "ZeroDivisionError"
             ELSE IF d.man = <<>> THEN "calm"
             ELSE IF ZAbove(ZSides(xs, d), tie) THEN side
             ELSE "calm"
        ELSE IF FGt(FAbs(d), KELP_Z_THRESH) THEN side ELSE "calm"

\* mutant: the last return alone decides
SameSignMomLastOnly(rets) ==
    FPos(rets[Len(rets)]) \/ FNegative(rets[Len(rets)])

\* same_sign_mom (lines 91-92): `and` binds tighter than `or`
SameSignMom(rets) ==
    \/ /\ Len(rets) = MOMENTUM_LAG
       /\ \A i \in 1..Len(rets) : FPos(rets[i])
    \/ \A i \in 1..Len(rets) : FNegative(rets[i])

\* roll after line 79
KelpRoll(mid, mem) == DequeAppend(Get(mem, "kelp_roll", Deque(KELP_WINDOW)), mid)

\* fv of line 81; fv_prev is mem.setdefault("fv_kelp", mid)
KelpFv(mid, mem) == Ema(KELP_ALPHA, mid, Get(mem, "fv_kelp", mid))

\* ret_hist after line 90; the int 0 of a first tick equals the float 0.0
KelpRets(mid, mem, roll) ==
    DequeAppend(Get(mem, "kelp_ret", Deque(MOMENTUM_LAG)),
                IF Len(roll.items) > 1
                THEN FSub(mid, roll.items[Len(roll.items) - 1])
                ELSE FZero)

\* the orders of lines 94-116, given the class of z and ret_hist
KelpOrders(prod, bid, ask, mid, pos, lim, zc, rets) ==
    IF zc = "high"
    THEN IF pos > -lim
         THEN <<Order(prod, FInt(mid) + 2, -Min(KELP_MEAN_SIZE, lim + pos), "mean_sell")>>
         ELSE <<>>
    ELSE IF zc = "low"
    THEN IF pos < lim
         THEN <<Order(prod, FInt(mid) - 2, Min(KELP_MEAN_SIZE, lim - pos), "mean_buy")>>
         ELSE <<>>
    ELSE IF SameSignMom(rets)
    THEN (IF FPos(rets[Len(rets)]) /\ pos < lim
          THEN <<Order(prod, ask[1], KELP_MOM_SIZE, "mom_buy")>> ELSE <<>>)
         \o (IF FNegative(rets[Len(rets)]) /\ pos > -lim
             THEN <<Order(prod, bid[1], -KELP_MOM_SIZE, "mom_sell")>> ELSE <<>>)
    ELSE <<>>

\* the branch, given the windows, fv and the class of z
KelpTrade(prod, bid, ask, mid, pos, lim, mem, roll, fv, rets, zc) ==
    IF zc = "ZeroDivisionError"
    THEN [mem |-> mem, orders |-> <<>>, exc |-> zc]
    ELSE [mem    |-> ("kelp_roll" :> roll) @@ ("fv_kelp" :> fv) @@ ("kelp_ret" :> rets)
                     @@ mem,
          orders |-> KelpOrders(prod, bid, ask, mid, pos, lim, zc, rets.items),
          exc    |-> NoExc]

KelpSeen(prod, bid, ask, mid, pos, lim, mem, tie, roll, fv) ==
    KelpTrade(prod, bid, ask, mid, pos, lim, mem, roll, fv, KelpRets(mid, mem, roll),
              ZClass(roll.items, FSub(mid, fv), tie))

\* the KELP branch (lines 77-116): [mem, orders, exc]
Kelp(prod, bid, ask, mid, pos, lim, mem, tie) ==
    KelpSeen(prod, bid, ask, mid, pos, lim, mem, tie, KelpRoll(mid, mem),
             KelpFv(mid, mem))

\* the loop's state after the RAINFOREST_RESIN branch, lines 72-73 included
TTAfterResin(acc, prod, r) ==
    [acc EXCEPT !.prod = prod, !.mem = r.mem,
                !.results = Put(acc.results, prod, r.orders),
                !.orders = r.orders, !.orders_bound = TRUE]

\* the loop's state after the KELP branch
TTAfterKelp(acc, prod, r) ==
    IF r.exc # NoExc THEN [acc EXCEPT !.prod = prod, !.exc = r.exc]
    ELSE [acc EXCEPT !.prod = prod, !.mem = r.mem, !.orders = r.orders,
                     !.orders_bound = TRUE, !.z_bound = TRUE]

\* one iteration of the loop, given the best bid and ask
TTBranch(prod, bid, ask, st, acc, tie) ==
    IF bid[1] = None \/ ask[1] = None THEN [acc EXCEPT !.prod = prod]
    ELSE IF prod \notin DOMAIN TT_LIMITS
    THEN [acc EXCEPT !.prod = prod, !.exc = "KeyError"]
    ELSE IF prod = "RAINFOREST_RESIN"
    THEN TTAfterResin(acc, prod,
                      Resin(TT_RESIN, prod, bid, ask, FromHalves(bid[1] + ask[1]),
                            Get(st.position, prod, 0), TT_LIMITS[prod], acc.mem))
    ELSE TTAfterKelp(acc, prod,
                     Kelp(prod, bid, ask, FromHalves(bid[1] + ask[1]),
                          Get(st.position, prod, 0), TT_LIMITS[prod], acc.mem, tie))

\* one iteration of the loop over state.order_depths.items(); acc carries
\* the locals that outlive the loop: prod, orders (bound once an iteration
\* reached line 55 or 94) and z (bound once an iteration reached line 85)
TTProduct(prod, depth, st, acc, tie) ==
    TTBranch(prod, BestBid(depth), BestAsk(depth), st, acc, tie)

RECURSIVE TTLoop(_, _, _, _)
TTLoop(st, i, acc, tie) ==
    IF i > Len(st.order_depths) \/ acc.exc # NoExc THEN acc
    ELSE TTLoop(st, i + 1,
                TTProduct(st.order_depths[i][1], st.order_depths[i][2], st, acc, tie),
                tie)

\* lines 118-123, after the loop: the orders bound last are filed under the
\* product iterated last; line 121 then reads z
TTReturn(acc) ==
    [mem     |-> acc.mem,
     results |-> IF acc.orders_bound THEN Put(acc.results, acc.prod, acc.orders)
                 ELSE acc.results,
     exc     |-> IF acc.exc # NoExc THEN acc.exc
                 ELSE IF ~acc.orders_bound \/ ~acc.z_bound THEN "UnboundLocalError"
                 ELSE NoExc]

\* Trader.run: [mem, results, exc]
TTRunOf(data, st, tie) ==
    TTReturn(TTLoop(st, 1,
                    [mem |-> LoadMem(data), results |-> EmptyDict, exc |-> NoExc,
                     prod |-> "", orders |-> <<>>, orders_bound |-> FALSE,
                     z_bound |-> FALSE],
                    tie))

\* the outcomes the comparison of abs(z) with KELP_Z_THRESH can have, given
\* roll and d = mid - fv: both when the roundings decide it
KelpTies(xs, d) ==
    IF Len(xs) > 10 /\ Spread(xs) # 0 /\ d.man # <<>> /\ ZNear(ZSides(xs, d))
    THEN BOOLEAN ELSE {FALSE}

KelpTiesAt(mid, mem) == KelpTies(KelpRoll(mid, mem).items, FSub(mid, KelpFv(mid, mem)))

\* the outcomes that comparison can have in the run on st
TTTies(data, st) ==
    IF HasBook(st, "KELP") THEN KelpTiesAt(MidOf(st, "KELP"), LoadMem(data))
    ELSE {FALSE}

TTMaxTicks == 2

KelpBooks ==
    { Depth((30 :> 20), (32 :> -20)),
      Depth((32 :> 20), (34 :> -20)),
      Depth((28 :> 20), (30 :> -20)),
      Depth((31 :> 20), (32 :> -20)) }
KelpOneSided == { Depth((30 :> 20), EmptyDict), Depth(EmptyDict, (32 :> -20)) }
KelpPositions == {-50, 0, 49, 50}

TTStates ==
    { TradingState(<<<<"KELP", k>>>>, ("KELP" :> p)) : k \in KelpBooks, p \in KelpPositions }
    \cup
    { TradingState(<<<<"RAINFOREST_RESIN", r>>, <<"KELP", k>>>>, pos) :
        r \in ResinFull, k \in KelpBooks,
        pos \in {EmptyDict, ("RAINFOREST_RESIN" :> 49) @@ ("KELP" :> -49)} }
    \cup
    { TradingState(<<<<"KELP", k>>, <<"RAINFOREST_RESIN", r>>>>, EmptyDict) :
        k \in KelpBooks, r \in ResinOneSided \cup {Depth((12 :> 5), (14 :> -5))} }
    \cup
    { TradingState(<<<<"KELP", k>>, <<"SQUID_INK", SquidNoBids>>>>, EmptyDict) :
        k \in KelpBooks }
    \cup
    { TradingState(<<<<"RAINFOREST_RESIN", r>>, <<"KELP", k>>>>, EmptyDict) :
        r \in ResinFull, k \in KelpOneSided }
    \cup
    { TradingState(<<<<"RAINFOREST_RESIN", r>>>>, EmptyDict) : r \in ResinFull }
    \cup
    { TradingState(<<<<"KELP", k>>>>, EmptyDict) : k \in KelpOneSided }
    \cup
    { TradingState(<<<<"KELP", Depth((30 :> 20), (32 :> -20))>>, <<"SQUID_INK", d>>>>,
                   EmptyDict) : d \in SquidFull }
    \cup
    { NoState }

\* fv after n more ticks that each showed the mid-price mid
RECURSIVE EmaAfter(_, _, _, _)
EmaAfter(alpha, mid, fv, n) ==
    IF n = 0 THEN fv
    ELSE IF n = 1 THEN Ema(alpha, mid, fv)
    ELSE LET half == EmaAfter(alpha, mid, fv, n \div 2)
         IN  IF half.exp <= 0 THEN EmaAfter(alpha, mid, half, n - n \div 2) ELSE half

\* the memory after one tick that showed KELP the book 32 / 34 and n - 1
\* ticks that showed it the book 30 / 32 (n >= 5), RAINFOREST_RESIN unseen
TTWarm(n) ==
    Encode(("kelp_roll" :>
                [maxlen |-> KELP_WINDOW,
                 items |-> <<FromInt(33)>> \o Repeat(FromInt(31), n - 1)])
           @@ ("fv_kelp" :>
                EmaAfter(KELP_ALPHA, FromInt(31),
                         Ema(KELP_ALPHA, FromInt(33), FromInt(33)), n - 1))
           @@ ("kelp_ret" :>
                [maxlen |-> MOMENTUM_LAG, items |-> Repeat(FZero, MOMENTUM_LAG)]))

\* the traderData after ticks that each showed KELP alone, with no position,
\* at the books of books in turn, data being the traderData before them
RECURSIVE TTAfterTicks(_, _)
TTAfterTicks(data, books) ==
    IF books = <<>> THEN data
    ELSE LET next == Encode(TTRunOf(data,
                                    TradingState(<<<<"KELP", books[1]>>>>, EmptyDict),
                                    FALSE).mem)
         IN  IF next.text = "" THEN next ELSE TTAfterTicks(next, Tail(books))

\* KELP at 33, 29, 31 from the empty state: a rise has begun
TTRising ==
    TTAfterTicks(NoData, <<Depth((32 :> 20), (34 :> -20)), Depth((28 :> 20), (30 :> -20)),
                           Depth((30 :> 20), (32 :> -20))>>)

\* KELP at 29, 33, 31.5 from the empty state: a fall has begun
TTFalling ==
    TTAfterTicks(NoData, <<Depth((28 :> 20), (30 :> -20)), Depth((32 :> 20), (34 :> -20)),
                           Depth((31 :> 20), (32 :> -20))>>)

TTInit ==
    /\ \/ traderData = NoData
       \/ traderData = TTWarm(10)
       \/ traderData = TTWarm(KELP_WINDOW - 1)
       \/ traderData = TTRising
       \/ traderData = TTFalling
    /\ state = NoState
    /\ results = EmptyDict
    /\ outcome = "init"
    /\ tick = 0
    /\ self = EmptyDict
    /\ win = Deque(0)
    /\ pushed = <<>>

TTRun ==
    /\ outcome \in {"init", "returned"}
    /\ tick < TTMaxTicks
    /\ \E st \in TTStates :
         \E tie \in TTTies(traderData, st) :
            Ran(st, TTRunOf(traderData, st, tie))
    /\ tick' = tick + 1
    /\ UNCHANGED <<self, win, pushed>>

TTNext == TTRun

SpecTT == TTInit /\ [][TTNext]_vars

(***************************************************************************)
(* Properties of src/tutorial/test.py                                      *)
(***************************************************************************)
\* what the memory holds for prod: the fair value and the rolling windows
StoredFor(data, prod) ==
    LET mem  == LoadMem(data)
        keys == IF prod = "RAINFOREST_RESIN" THEN {"fv_resin"}
                ELSE IF prod = "KELP" THEN {"kelp_roll", "fv_kelp", "kelp_ret"}
                ELSE {}
    IN  [k \in keys \cap DOMAIN mem |-> mem[k]]

\* C7: on a tick where a product's book has no bids or no asks, the returned
\* result holds no orders under the product's key and its stored fair value
\* and rolling windows are as before the tick, whatever other products the
\* snapshot lists and wherever the product stands among them
C7_EmptySideSkipsProduct ==
    [][ outcome' = "returned" =>
          \A p \in Keys(state'.order_depths) :
              ~HasBook(state', p) =>
                  /\ Get(results', p, <<>>) = <<>>
                  /\ StoredFor(traderData', p) = StoredFor(traderData, p) ]_vars

\* the snapshot with its products in the opposite order
Reversed(st) ==
    [st EXCEPT !.order_depths =
        [i \in 1..Len(st.order_depths) |-> st.order_depths[Len(st.order_depths) + 1 - i]]]

\* a run that ended as oc with the orders res and the traderData data came
\* out as out does: the same exception, or the same list of orders for every
\* product and the same memory
SameOutcome(oc, res, data, out) ==
    IF out.exc # NoExc THEN oc = out.exc
    ELSE /\ oc = "returned"
         /\ \A p \in DOMAIN res \cup DOMAIN out.results :
                Get(res, p, <<>>) = Get(out.results, p, <<>>)
         /\ LoadMem(data) = out.mem

\* C17: the run on the snapshot with its products iterated in the opposite
\* order returns, from the same traderData, the same orders for every
\* product and the same memory
C17_IterationOrderIrrelevant ==
    [][tick' = tick + 1 =>
         \E tie \in TTTies(traderData, Reversed(state')) :
             SameOutcome(outcome', results', traderData',
                         TTRunOf(traderData, Reversed(state'), tie))]_vars

\* C21: in every returned result mapping, each order listed under product
\* key p is an order for product p
C21_OrdersUnderOwnKey ==
    (outcome = "returned" /\ tick > 0) =>
        \A p \in DOMAIN results :
            \A i \in 1..Len(results[p]) : results[p][i].symbol = p

\* the return history kept in the memory
KelpRetOf(data) == Get(LoadMem(data), "kelp_ret", Deque(MOMENTUM_LAG)).items

\* the momentum orders of the mapping returned
MomentumOrders(side) ==
    { o \in UNION { Elems(results[p]) : p \in DOMAIN results } :
        o.leg = IF side = 1 THEN "mom_buy" ELSE "mom_sell" }

\* C22: from the empty state on, a momentum order is emitted only on a tick
\* after whose push the return history holds exactly MOMENTUM_LAG returns,
\* all strictly positive for a buy of KELP_MOM_SIZE at the best ask, all
\* strictly negative for a sell of KELP_MOM_SIZE at the best bid; none is
\* emitted while the history holds fewer than MOMENTUM_LAG returns
C22_MomentumNeedsFullSameSignHistory ==
    (outcome = "returned" /\ tick > 0) =>
        /\ \A o \in MomentumOrders(1) :
              /\ HasBook(state, "KELP")
              /\ Len(KelpRetOf(traderData)) = MOMENTUM_LAG
              /\ \A i \in 1..Len(KelpRetOf(traderData)) : FPos(KelpRetOf(traderData)[i])
              /\ o.price = AskOf(state, "KELP")[1]
              /\ o.quantity = KELP_MOM_SIZE
        /\ \A o \in MomentumOrders(-1) :
              /\ HasBook(state, "KELP")
              /\ Len(KelpRetOf(traderData)) = MOMENTUM_LAG
              /\ \A i \in 1..Len(KelpRetOf(traderData)) : FNegative(KelpRetOf(traderData)[i])
              /\ o.price = BidOf(state, "KELP")[1]
              /\ o.quantity = -KELP_MOM_SIZE

\* three rises in a row ended in a momentum buy at the best ask
C22_Witness ==
    /\ outcome = "returned" /\ tick = 2
    /\ MomentumOrders(1) # {}
    /\ Len(KelpRetOf(traderData)) = MOMENTUM_LAG
    /\ \A i \in 1..MOMENTUM_LAG : FPos(KelpRetOf(traderData)[i])

(***************************************************************************)
(* The rolling windows on their own: the deque(maxlen) of                  *)
(* src/round_1.py:82-83, src/tutorial/round_2.py:45-48 and                 *)
(* src/tutorial/test.py:88-90, and the list of src/round_3.py:38-51 that   *)
(* pops its first item once it is longer than WINDOW.  win holds one       *)
(* window of each kind, pushed the values pushed into each so far.         *)
(***************************************************************************)
ROCK_WINDOW == 100

\* rock_price_hist.append(mid); if len(rock_price_hist) > WINDOW: pop(0)
ListPush(hist, mid, window) ==
    IF Len(hist) + 1 > window THEN Tail(Append(hist, mid)) ELSE Append(hist, mid)

WinMaxPushes == 6
WinValues == {FromHalves(41), FromInt(20)}

\* a window of each kind after n pushes of 20.5
WinAfter(maxlen, n, m) ==
    /\ win = [deque |-> [maxlen |-> maxlen, items |-> Repeat(FromHalves(41), n)],
              list  |-> Repeat(FromHalves(41), m)]
    /\ pushed = [deque |-> Repeat(FromHalves(41), n), list |-> Repeat(FromHalves(41), m)]

WinInit ==
    /\ \/ WinAfter(MOMENTUM_LAG, 0, 0)
       \/ WinAfter(DIFF_WINDOW, DIFF_WINDOW - 2, ROCK_WINDOW - 2)
       \/ WinAfter(R1_SQUID_WINDOW, R1_SQUID_WINDOW, ROCK_WINDOW)
    /\ traderData = NoData
    /\ state = NoState
    /\ results = EmptyDict
    /\ outcome = "init"
    /\ tick = 0
    /\ self = EmptyDict

DequePush ==
    /\ tick < WinMaxPushes
    /\ \E x \in WinValues :
         /\ win' = [win EXCEPT !.deque = DequeAppend(win.deque, x)]
         /\ pushed' = [pushed EXCEPT !.deque = Append(pushed.deque, x)]
    /\ tick' = tick + 1
    /\ UNCHANGED <<traderData, state, results, outcome, self>>

ListPushed ==
    /\ tick < WinMaxPushes
    /\ \E x \in WinValues :
         /\ win' = [win EXCEPT !.list = ListPush(win.list, x, ROCK_WINDOW)]
         /\ pushed' = [pushed EXCEPT !.list = Append(pushed.list, x)]
    /\ tick' = tick + 1
    /\ UNCHANGED <<traderData, state, results, outcome, self>>

WinNext == DequePush \/ ListPushed

SpecWin == WinInit /\ [][WinNext]_vars

\* the last k items of a sequence
LastN(xs, k) == SubSeq(xs, Len(xs) - k + 1, Len(xs))

\* C6: after n pushes into a rolling window of capacity c its length is
\* min(n, c) and its content the most recent min(n, c) pushed values in
\* insertion order, for the deque and for the list with pop(0) alike
C6_WindowHoldsMostRecent ==
    /\ Len(win.deque.items) = Min(Len(pushed.deque), win.deque.maxlen)
    /\ win.deque.items = LastN(pushed.deque, Min(Len(pushed.deque), win.deque.maxlen))
    /\ Len(win.list) = Min(Len(pushed.list), ROCK_WINDOW)
    /\ win.list = LastN(pushed.list, Min(Len(pushed.list), ROCK_WINDOW))

\* both windows have evicted, the oldest values differing from the newest
C6_Witness ==
    /\ Len(pushed.deque) > win.deque.maxlen
    /\ Len(pushed.list) > ROCK_WINDOW
    /\ pushed.deque[1] # pushed.deque[Len(pushed.deque)]
    /\ pushed.list[1] # pushed.list[Len(pushed.list)]
    /\ win.deque.items[1] # win.deque.items[Len(win.deque.items)]

(***************************************************************************)
(* src/round_3.py, lines 91-159: the Trader that the module exports (the   *)
(* second class of that name replaces the first).  It keeps the KELP       *)
(* mid-prices in the attribute kelp_prices of the instance and always      *)
(* returns the empty string as traderData.                                 *)
(***************************************************************************)
POSITION_LIMITS == [KELP |-> 50, RAINFOREST_RESIN |-> 50]

R3_KELP_WINDOW == 20                  \* window = 20
R3_KELP_THRESHOLD == FromHalves(3)    \* threshold = 1.5
R3_RESIN_CLIP == 5
R3_KELP_CLIP == 10

\* Trader.__init__
TraderInit == [kelp_prices |-> <<>>]

\* sum(p * v for p, v in d.items()) and sum(d.values())
RECURSIVE Notional(_, _)
Notional(d, ps) ==
    IF ps = {} THEN 0
    ELSE LET p == CHOOSE q \in ps : TRUE
         IN  p * d[p] + Notional(d, ps \ {p})

RECURSIVE Volume(_, _)
Volume(d, ps) ==
    IF ps = {} THEN 0
    ELSE LET p == CHOOSE q \in ps : TRUE
         IN  d[p] + Volume(d, ps \ {p})

\* the quotes of lines 124-134, given fair_value
R3ResinQuotes(product, position, fair_value) ==
    (IF Min(POSITION_LIMITS[product] - position, R3_RESIN_CLIP) > 0
     THEN <<Order(product, FInt(FSub(fair_value, FromInt(1))),
                  Min(POSITION_LIMITS[product] - position, R3_RESIN_CLIP), "vwap_buy")>>
     ELSE <<>>)
    \o
    (IF Min(position + POSITION_LIMITS[product], R3_RESIN_CLIP) > 0
     THEN <<Order(product, FInt(FAdd(fair_value, FromInt(1))),
                  -Min(position + POSITION_LIMITS[product], R3_RESIN_CLIP), "vwap_sell")>>
     ELSE <<>>)

\* lines 120-134, given the four sums: fair_value = (vwap_bid + vwap_ask) / 2
R3ResinAt(product, position, bid_notional, bid_volume, ask_notional, ask_volume) ==
    IF bid_volume = 0 \/ ask_volume = 0
    THEN [orders |-> <<>>, exc |-> "ZeroDivisionError"]
    ELSE [orders |-> R3ResinQuotes(product, position,
                        FMul(FAdd(FDivInts(bid_notional, bid_volume),
                                  FDivInts(ask_notional, ask_volume)),
                             FromHalves(1))),
          exc    |-> NoExc]

\* the RAINFOREST_RESIN branch: [orders, exc]
R3Resin(product, order_depth, position) ==
    IF DOMAIN order_depth.buy_orders # {} /\ DOMAIN order_depth.sell_orders # {}
    THEN R3ResinAt(product, position,
                   Notional(order_depth.buy_orders, DOMAIN order_depth.buy_orders),
                   Volume(order_depth.buy_orders, DOMAIN order_depth.buy_orders),
                   -Notional(order_depth.sell_orders, DOMAIN order_depth.sell_orders),
                   -Volume(order_depth.sell_orders, DOMAIN order_depth.sell_orders))
    ELSE [orders |-> <<>>, exc |-> NoExc]

\* self.kelp_prices[-window:]
LastItems(xs, window) ==
    IF Len(xs) <= window THEN xs ELSE SubSeq(xs, Len(xs) - window + 1, Len(xs))

\* lines 150-155, given avg_price
R3KelpOrders(product, best_bid, best_ask, mid_price, position, avg_price) ==
    IF FLt(mid_price, FSub(avg_price, R3_KELP_THRESHOLD))
       /\ position < POSITION_LIMITS[product]
    THEN <<Order(product, best_ask,
                 Min(POSITION_LIMITS[product] - position, R3_KELP_CLIP), "kelp_buy")>>
    ELSE IF FGt(mid_price, FAdd(avg_price, R3_KELP_THRESHOLD))
            /\ position > -POSITION_LIMITS[product]
    THEN <<Order(product, best_bid,
                 -Min(position + POSITION_LIMITS[product], R3_KELP_CLIP), "kelp_sell")>>
    ELSE <<>>

\* lines 147-155, given kelp_prices after the append of line 142
R3KelpSeen(product, best_bid, best_ask, mid_price, position, kelp_prices) ==
    [kelp_prices |-> kelp_prices,
     orders      |-> IF Len(kelp_prices) >= R3_KELP_WINDOW
                     THEN R3KelpOrders(product, best_bid, best_ask, mid_price, position,
                                       Mean(LastItems(kelp_prices, R3_KELP_WINDOW)))
                     ELSE <<>>]

\* lines 139-155, given the best bid and ask
R3KelpAt(product, best_bid, best_ask, position, kelp_prices) ==
    R3KelpSeen(product, best_bid, best_ask, FromHalves(best_ask + best_bid), position,
               Append(kelp_prices, FromHalves(best_ask + best_bid)))

\* the KELP branch: [kelp_prices, orders]
R3Kelp(product, order_depth, position, kelp_prices) ==
    IF DOMAIN order_depth.buy_orders # {} /\ DOMAIN order_depth.sell_orders # {}
    THEN R3KelpAt(product, SetMax(DOMAIN order_depth.buy_orders),
                  SetMin(DOMAIN order_depth.sell_orders), position, kelp_prices)
    ELSE [kelp_prices |-> kelp_prices, orders |-> <<>>]

\* the loop's state after the RAINFOREST_RESIN branch came out as r
R3AfterResin(acc, product, r) ==
    [kelp_prices |-> acc.kelp_prices,
     result      |-> IF r.exc = NoExc THEN Put(acc.result, product, r.orders)
                     ELSE acc.result,
     exc         |-> r.exc]

\* the loop's state after the KELP branch came out as r
R3AfterKelp(acc, product, r) ==
    [kelp_prices |-> r.kelp_prices,
     result      |-> Put(acc.result, product, r.orders),
     exc         |-> NoExc]

\* one iteration of the loop over state.order_depths.items()
R3Product(product, order_depth, position, acc) ==
    IF product = "RAINFOREST_RESIN"
    THEN R3AfterResin(acc, product, R3Resin(product, order_depth, position))
    ELSE IF product = "KELP"
    THEN R3AfterKelp(acc, product, R3Kelp(product, order_depth, position, acc.kelp_prices))
    ELSE [acc EXCEPT !.result = Put(acc.result, product, <<>>)]

RECURSIVE R3Loop(_, _, _)
R3Loop(st, i, acc) ==
    IF i > Len(st.order_depths) \/ acc.exc # NoExc THEN acc
    ELSE R3Loop(st, i + 1,
                R3Product(st.order_depths[i][1], st.order_depths[i][2],
                          Get(st.position, st.order_depths[i][1], 0), acc))

\* Trader.run on an instance whose attributes are inst: [kelp_prices, result, exc]
R3RunOf(inst, st) ==
    R3Loop(st, 1, [kelp_prices |-> inst.kelp_prices, result |-> EmptyDict, exc |-> NoExc])

\* the number of runs explored from an initial state
R3MaxTicks == 2

R3KelpBooks == { Depth((29 :> 20), (31 :> -20)),
                 Depth((26 :> 20), (28 :> -20)),
                 Depth((32 :> 20), (34 :> -20)) }
R3Positions == {-50, 0, 45, 50}

R3States ==
    { TradingState(<<<<"KELP", d>>>>, ("KELP" :> p)) :
        d \in R3KelpBooks \cup {KelpNoAsks}, p \in R3Positions }
    \cup
    { TradingState(<<<<"RAINFOREST_RESIN", d>>>>, ("RAINFOREST_RESIN" :> p)) :
        d \in ResinFull \cup ResinOneSided, p \in R3Positions }
    \cup
    { TradingState(<<<<"RAINFOREST_RESIN", r>>, <<"KELP", d>>>>, EmptyDict) :
        r \in ResinFull, d \in R3KelpBooks }
    \cup
    { TradingState(<<<<"SQUID_INK", d>>>>, EmptyDict) : d \in SquidFull }

\* the instance after n runs that each showed KELP the book 29 / 31
R3Warm(n) == [kelp_prices |-> Repeat(FromInt(30), n)]

R3Init ==
    /\ traderData = NoData
    /\ state = NoState
    /\ results = EmptyDict
    /\ outcome = "init"
    /\ tick = 0
    /\ \/ self = TraderInit
       \/ self = R3Warm(R3_KELP_WINDOW - 2)
       \/ self = R3Warm(R3_KELP_WINDOW)
    /\ win = Deque(0)
    /\ pushed = <<>>

\* a run on the instance came out as out: the attribute keeps what the run
\* appended, and the traderData returned is the empty string
R3Ran(st, out) ==
    /\ state' = st
    /\ self' = [kelp_prices |-> out.kelp_prices]
    /\ IF out.exc = NoExc
       THEN /\ outcome' = "returned"
            /\ results' = out.result
            /\ traderData' = NoData
       ELSE /\ outcome' = out.exc
            /\ results' = EmptyDict
            /\ UNCHANGED traderData

R3Run ==
    /\ outcome \in {"init", "returned"}
    /\ tick < R3MaxTicks
    /\ \E st \in R3States : R3Ran(st, R3RunOf(self, st))
    /\ tick' = tick + 1
    /\ UNCHANGED <<win, pushed>>

\* the caller constructs a new Trader and goes on with it
R3Construct ==
    /\ outcome = "returned"
    /\ self # TraderInit
    /\ self' = TraderInit
    /\ UNCHANGED <<traderData, state, results, outcome, tick, win, pushed>>

R3Next == R3Run \/ R3Construct

SpecR3 == R3Init /\ [][R3Next]_vars

(***************************************************************************)
(* Properties of src/round_3.py                                            *)
(***************************************************************************)
\* C14: a run returns the orders and the traderData that a newly constructed
\* Trader returns for the same traderData, order books and positions,
\* whatever runs the instance made before
C14_RunDependsOnBlobAndInput ==
    [][(tick' = tick + 1 /\ outcome' = "returned") =>
         /\ results' = R3RunOf(TraderInit, state').result
         /\ traderData' = NoData]_vars

\* C15: the observations kept from earlier ticks number at most the window
\* of the strategy, however many ticks were processed
C15_RetainedObservationsBounded ==
    Len(self.kelp_prices) <= R3_KELP_WINDOW

(***************************************************************************)
(* src/tutorial/round_1.py: Trader (RAINFOREST_RESIN market maker, KELP    *)
(* breakout, SQUID_INK mean reversion)                                     *)
(***************************************************************************)
T1_LIMITS == [RAINFOREST_RESIN |-> 50, KELP |-> 50, SQUID_INK |-> 50]

T1_RESIN ==
    [RESIN_ALPHA |-> FDivInts(1, 10),      \* 0.1
     RESIN_EDGE  |-> 1,
     PASSIVE_QTY |-> 12,
     INV_SKEW    |-> FDivInts(3, 100)]     \* 0.03

T1_KELP_WINDOW == 50
KELP_BREAKOUT_FACTOR == FromHalves(1)      \* 0.5
T1_KELP_MOM_SIZE == 2
T1_SQUID_WINDOW == 40
SQUID_MR_THRESHOLD == FromInt(10)
SQUID_MR_SIZE == 5

FMax2(x, y) == IF FGt(y, x) THEN y ELSE x
FMin2(x, y) == IF FLt(y, x) THEN y ELSE x

\* max(roll) and min(roll) over xs[lo..hi]
RECURSIVE FMaxIn(_, _, _)
FMaxIn(xs, lo, hi) ==
    IF lo = hi THEN xs[lo]
    ELSE FMax2(FMaxIn(xs, lo, (lo + hi) \div 2), FMaxIn(xs, (lo + hi) \div 2 + 1, hi))

RECURSIVE FMinIn(_, _, _)
FMinIn(xs, lo, hi) ==
    IF lo = hi THEN xs[lo]
    ELSE FMin2(FMinIn(xs, lo, (lo + hi) \div 2), FMinIn(xs, (lo + hi) \div 2 + 1, hi))

FMax(xs) == FMaxIn(xs, 1, Len(xs))
FMin(xs) == FMinIn(xs, 1, Len(xs))

\* breakout_threshold = KELP_BREAKOUT_FACTOR * (recent_high - recent_low)
BreakoutThreshold(recent_high, recent_low) ==
    FMul(KELP_BREAKOUT_FACTOR, FSub(recent_high, recent_low))

\* lines 115-124, given recent_high, recent_low and breakout_threshold
T1KelpOrders(prod, bid, ask, mid, pos, lim, recent_high, recent_low, breakout_threshold) ==
    (IF FGt(mid, FAdd(recent_high, breakout_threshold)) /\ pos < lim
        /\ Min(T1_KELP_MOM_SIZE, lim - pos) > 0
     THEN <<Order(prod, ask[1], Min(T1_KELP_MOM_SIZE, lim - pos), "breakout_buy")>>
     ELSE <<>>)
    \o
    (IF FLt(mid, FSub(recent_low, breakout_threshold)) /\ pos > -lim
        /\ Min(T1_KELP_MOM_SIZE, lim + pos) > 0
     THEN <<Order(prod, bid[1], -Min(T1_KELP_MOM_SIZE, lim + pos), "breakout_sell")>>
     ELSE <<>>)

\* lines 110-124, given recent_high and recent_low
T1KelpRange(prod, bid, ask, mid, pos, lim, recent_high, recent_low) ==
    T1KelpOrders(prod, bid, ask, mid, pos, lim, recent_high, recent_low,
                 BreakoutThreshold(recent_high, recent_low))

\* lines 105-126, given roll after the append of line 103
T1KelpRolled(prod, bid, ask, mid, pos, lim, mem, roll) ==
    [mem    |-> Put(mem, "kelp_roll", roll),
     orders |-> T1KelpRange(prod, bid, ask, mid, pos, lim,
                            FMax(roll.items), FMin(roll.items)),
     emit   |-> TRUE]

\* the KELP branch (lines 101-135): [mem, orders, emit]
T1Kelp(prod, bid, ask, mid, pos, lim, mem) ==
    T1KelpRolled(prod, bid, ask, mid, pos, lim, mem,
                 DequeAppend(Get(mem, "kelp_roll", Deque(T1_KELP_WINDOW)), mid))

\* lines 154-163, given deviation
T1SquidOrders(prod, bid, ask, pos, lim, deviation) ==
    IF FGt(deviation, SQUID_MR_THRESHOLD) /\ pos > -lim
    THEN IF Min(SQUID_MR_SIZE, lim + pos) > 0
         THEN <<Order(prod, bid[1], -Min(SQUID_MR_SIZE, lim + pos), "squid_sell")>>
         ELSE <<>>
    ELSE IF FLt(deviation, FNeg(SQUID_MR_THRESHOLD)) /\ pos < lim
    THEN IF Min(SQUID_MR_SIZE, lim - pos) > 0
         THEN <<Order(prod, ask[1], Min(SQUID_MR_SIZE, lim - pos), "squid_buy")>>
         ELSE <<>>
    ELSE <<>>

\* lines 145-165, given roll_sq after the append of line 143
T1SquidRolled(prod, bid, ask, mid, pos, lim, mem, roll_sq) ==
    [mem    |-> Put(mem, "squid_ink_roll", roll_sq),
     orders |-> T1SquidOrders(prod, bid, ask, pos, lim, FSub(mid, Mean(roll_sq.items))),
     emit   |-> TRUE]

\* the SQUID_INK branch (lines 140-172): [mem, orders, emit]
T1Squid(prod, bid, ask, mid, pos, lim, mem) ==
    T1SquidRolled(prod, bid, ask, mid, pos, lim, mem,
                  DequeAppend(Get(mem, "squid_ink_roll", Deque(T1_SQUID_WINDOW)), mid))

\* the RAINFOREST_RESIN branch (lines 65-96): [mem, orders, emit]
T1Resin(r) == [mem |-> r.mem, orders |-> r.orders, emit |-> TRUE]

\* the loop's state after a branch that came out as r
T1After(acc, prod, r) ==
    [mem     |-> r.mem,
     results |-> Put(acc.results, prod, r.orders),
     exc     |-> NoExc]

\* one iteration of the loop, given the best bid and ask, mid, pos and lim
T1Branch(prod, bid, ask, mid, pos, lim, acc) ==
    IF prod = "RAINFOREST_RESIN"
    THEN T1After(acc, prod, T1Resin(Resin(T1_RESIN, prod, bid, ask, mid, pos, lim, acc.mem)))
    ELSE IF prod = "KELP"
    THEN T1After(acc, prod, T1Kelp(prod, bid, ask, mid, pos, lim, acc.mem))
    ELSE IF prod = "SQUID_INK"
    THEN T1After(acc, prod, T1Squid(prod, bid, ask, mid, pos, lim, acc.mem))
    ELSE acc

\* lines 54-60
T1Seen(prod, bid, ask, st, acc) ==
    IF bid[1] = None \/ ask[1] = None THEN acc
    ELSE T1Branch(prod, bid, ask, FromHalves(bid[1] + ask[1]),
                  Get(st.position, prod, 0), Get(T1_LIMITS, prod, 0), acc)

\* one iteration of the loop over state.order_depths.items()
T1Product(prod, depth, st, acc) == T1Seen(prod, BestBid(depth), BestAsk(depth), st, acc)

RECURSIVE T1Loop(_, _, _)
T1Loop(st, i, acc) ==
    IF i > Len(st.order_depths) \/ acc.exc # NoExc THEN acc
    ELSE T1Loop(st, i + 1,
                T1Product(st.order_depths[i][1], st.order_depths[i][2], st, acc))

\* Trader.run: [mem, results, exc]
T1RunOf(data, st) ==
    T1Loop(st, 1, [mem |-> LoadMem(data), results |-> EmptyDict, exc |-> NoExc])

T1MaxTicks == 2

(***************************************************************************)
(* The ticks explored for src/tutorial/round_1.py.                         *)
(***************************************************************************)
T1KelpBooks ==
    { Depth((29 :> 20), (31 :> -20)),
      Depth((32 :> 20), (34 :> -20)),
      Depth((26 :> 20), (28 :> -20)) }
T1KelpPositions == {-50, 0, 49, 50}
SquidFar == { Depth((34 :> 10), (36 :> -10)), Depth((4 :> 10), (6 :> -10)) }

T1States ==
    { TradingState(<<<<"KELP", d>>>>, ("KELP" :> p)) :
        d \in T1KelpBooks \cup {KelpNoAsks}, p \in T1KelpPositions }
    \cup
    { TradingState(<<<<"RAINFOREST_RESIN", d>>>>, ("RAINFOREST_RESIN" :> p)) :
        d \in ResinFull \cup ResinOneSided, p \in ResinPositions }
    \cup
    { TradingState(<<<<"SQUID_INK", d>>>>, ("SQUID_INK" :> p)) :
        d \in SquidFull \cup SquidFar \cup {SquidNoBids}, p \in SquidPositions }
    \cup
    { TradingState(<<<<"KELP", d>>, <<"RAINFOREST_RESIN", r>>>>, EmptyDict) :
        d \in T1KelpBooks, r \in ResinFull }
    \cup
    { TradingState(<<<<"DJEMBES", KelpFull>>>>, EmptyDict) }

\* the memory after n ticks that each showed KELP the book 29 / 31 and
\* SQUID_INK the book 19 / 21
T1Warm(n) ==
    Encode(("kelp_roll" :> [maxlen |-> T1_KELP_WINDOW,
                            items |-> Repeat(FromInt(30), Min(n, T1_KELP_WINDOW))])
           @@ ("squid_ink_roll" :> [maxlen |-> T1_SQUID_WINDOW,
                                    items |-> Repeat(FromInt(20), Min(n, T1_SQUID_WINDOW))]))

\* pushed logs the RAINFOREST_RESIN mid-prices the trader has observed
T1Init ==
    /\ \/ traderData = NoData
       \/ traderData = T1Warm(1)
       \/ traderData = T1Warm(T1_KELP_WINDOW)
    /\ state = NoState
    /\ results = EmptyDict
    /\ outcome = "init"
    /\ tick = 0
    /\ self = EmptyDict
    /\ win = Deque(0)
    /\ pushed = <<>>

T1Observed(log, st) ==
    IF HasBook(st, "RAINFOREST_RESIN") THEN Append(log, MidOf(st, "RAINFOREST_RESIN"))
    ELSE log

T1Run ==
    /\ outcome \in {"init", "returned"}
    /\ tick < T1MaxTicks
    /\ \E st \in T1States :
          /\ Ran(st, T1RunOf(traderData, st))
          /\ pushed' = T1Observed(pushed, st)
    /\ tick' = tick + 1
    /\ UNCHANGED <<self, win>>

T1Next == T1Run

SpecT1 == T1Init /\ [][T1Next]_vars

(***************************************************************************)
(* Properties of src/tutorial/round_1.py.                                  *)
(***************************************************************************)
\* the rolling window of KELP mid-prices kept in the memory
KelpRollOf(data) == Get(LoadMem(data), "kelp_roll", Deque(T1_KELP_WINDOW)).items

\* mid is above the high of the window xs by more than
\* KELP_BREAKOUT_FACTOR * (high - low)
BreaksAbove(mid, xs) ==
    FGt(mid, FAdd(FMax(xs), BreakoutThreshold(FMax(xs), FMin(xs))))

\* mid is below the low of the window xs by more than
\* KELP_BREAKOUT_FACTOR * (high - low)
BreaksBelow(mid, xs) ==
    FLt(mid, FSub(FMin(xs), BreakoutThreshold(FMax(xs), FMin(xs))))

\* the breakout orders the tick on st owes, its window so far being xs
BreakoutBuyDue(st, xs) ==
    BreaksAbove(MidOf(st, "KELP"), xs) /\ PosOf(st, "KELP") < T1_LIMITS["KELP"]
BreakoutSellDue(st, xs) ==
    BreaksBelow(MidOf(st, "KELP"), xs) /\ PosOf(st, "KELP") > -T1_LIMITS["KELP"]

BreakoutBuy(st) ==
    Order("KELP", AskOf(st, "KELP")[1],
          Min(T1_KELP_MOM_SIZE, T1_LIMITS["KELP"] - PosOf(st, "KELP")), "breakout_buy")
BreakoutSell(st) ==
    Order("KELP", BidOf(st, "KELP")[1],
          -Min(T1_KELP_MOM_SIZE, T1_LIMITS["KELP"] + PosOf(st, "KELP")), "breakout_sell")

\* C18: on a tick that shows KELP with both sides, when the mid-price breaks
\* above the recent high of the rolling window by more than
\* KELP_BREAKOUT_FACTOR * (recent high - recent low) and position < limit, a
\* buy of min(KELP_MOM_SIZE, limit - position) at the best ask is emitted;
\* symmetrically, a break below the recent low with position > -limit emits a
\* sell at the best bid
C18_KelpBreakout ==
    [][(outcome' = "returned" /\ HasBook(state', "KELP") /\ KelpRollOf(traderData) # <<>>) =>
         /\ BreakoutBuyDue(state', KelpRollOf(traderData))
              => BreakoutBuy(state') \in Elems(Get(results', "KELP", <<>>))
         /\ BreakoutSellDue(state', KelpRollOf(traderData))
              => BreakoutSell(state') \in Elems(Get(results', "KELP", <<>>))]_vars

\* no run of the trader returns an order for KELP
KelpNeverTrades == Get(results, "KELP", <<>>) = <<>>

\* C20: after any sequence of ticks, the stored EMA fair value of
\* RAINFOREST_RESIN lies between the minimum and the maximum of all the
\* mid-prices observed for it so far, both included
C20_EmaWithinObservedRange ==
    "fv_resin" \in DOMAIN LoadMem(traderData) =>
        /\ pushed # <<>>
        /\ ~FLt(LoadMem(traderData)["fv_resin"], FMin(pushed))
        /\ ~FGt(LoadMem(traderData)["fv_resin"], FMax(pushed))

====
